---- MODULE Spec2Model ----
(***************************************************************************)
(* ADV7180 video decoder driver (drivers/staging/media/imx6/capture/       *)
(* adv7180.c): the decoder state, the lock/standard detector, the threaded *)
(* interrupt handler and the subdev operations that run beside it.         *)
(*                                                                         *)
(* Two threads touch struct adv7180_dev: the threaded irq handler ("irq")  *)
(* and a host framework thread making subdev calls ("api").  Every C       *)
(* statement that reads or writes shared state, and every i2c register     *)
(* access, is one step.  A register access may fail (the i2c transfer      *)
(* returns an error); a register read returns a value the hardware chose.  *)
(*                                                                         *)
(* Spec     the detector, the irq handler, adv7180_querystd and the format *)
(*          and crop queries, with and without an interrupt line.          *)
(* CtrlSpec the irq handler beside adv7180_s_ctrl and adv7180_s_routing.   *)
(***************************************************************************)
EXTENDS Integers, Sequences, FiniteSets, TLC

(* ------------------------------------------------------------------ *)
(* Register map and bit masks                                         *)
(* ------------------------------------------------------------------ *)
ADV7180_INPUT_CTL == 0
ADV7180_CONTRAST == 8
ADV7180_BRIGHTNESS == 10
ADV7180_HUE_REG == 11
ADV7180_BANK_SEL == 14
ADV7180_STATUS_1 == 16
ADV7180_IN_LOCK == 1
ADV7180_LOST_LOCK == 2
ADV7180_FSC_LOCK == 4
ADV7180_AD_RESULT_BIT == 4
ADV7180_AD_RESULT_MASK == 112
ADV7180_AD_NTSC == 0
ADV7180_AD_NTSC_4_43 == 1
ADV7180_AD_PAL_M == 2
ADV7180_AD_PAL_60 == 3
ADV7180_AD_PAL == 4
ADV7180_AD_SECAM == 5
ADV7180_AD_PAL_N == 6
ADV7180_AD_SECAM_525 == 7
ADV7180_INT_STATUS_1 == 66
ADV7180_INT_SD_LOCK == 1
ADV7180_INT_SD_UNLOCK == 2
ADV7180_INT_CLEAR_1 == 67
ADV7180_INT_RAW_STATUS_3 == 73
ADV7180_INT_SD_V_LOCK == 2
ADV7180_INT_STATUS_3 == 74
ADV7180_INT_SD_V_LOCK_CHNG == 2
ADV7180_INT_SD_AD_CHNG == 8
ADV7180_INT_CLEAR_3 == 75
ADV7180_SD_SATURATION_CB == 227
ADV7180_SD_SATURATION_CR == 228
ADV7180_IDENT == 17
ADV7180_PWR_MNG == 15
ADV7180_INT_CONFIG_1 == 64
ADV7180_INT_MASK_1 == 68
ADV7180_INT_MASK_3 == 76

\* The two values the driver writes to the bank-select register 0x0E.
BANK_NORMAL == 0
BANK_INTERRUPT == 32

\* Indices of video_fmts[].
ADV7180_NTSC == 0
ADV7180_PAL == 1

\* v4l2_std_id values the autodetect switch can produce (distinct bit sets
\* in videodev2.h; only their equality is ever tested).
V4L2_STD_NTSC == "V4L2_STD_NTSC"
V4L2_STD_NTSC_443 == "V4L2_STD_NTSC_443"
V4L2_STD_PAL == "V4L2_STD_PAL"
V4L2_STD_PAL_M == "V4L2_STD_PAL_M"
V4L2_STD_PAL_N == "V4L2_STD_PAL_N"
V4L2_STD_PAL_60 == "V4L2_STD_PAL_60"
V4L2_STD_SECAM == "V4L2_STD_SECAM"

\* Error number (returned negated).
EINVAL == 22
ENODEV == 19

\* enum irqreturn.
IRQ_HANDLED == 1

(* ------------------------------------------------------------------ *)
(* Standard table                                                     *)
(* ------------------------------------------------------------------ *)
\* Fault: the PAL entry sampled with square pixels, 768 wide.
video_fmts_SquarePal ==
  [i \in {ADV7180_NTSC, ADV7180_PAL} |->
     IF i = ADV7180_NTSC
     THEN [v4l2_id |-> V4L2_STD_NTSC, name |-> "NTSC",
           raw  |-> [width |-> 720, height |-> 525],
           crop |-> [width |-> 720, height |-> 480, top |-> 13, left |-> 0]]
     ELSE [v4l2_id |-> V4L2_STD_PAL, name |-> "PAL",
           raw  |-> [width |-> 768, height |-> 625],
           crop |-> [width |-> 768, height |-> 576, top |-> 0, left |-> 0]]]

video_fmts ==
  [i \in {ADV7180_NTSC, ADV7180_PAL} |->
     IF i = ADV7180_NTSC
     THEN [v4l2_id |-> V4L2_STD_NTSC, name |-> "NTSC",
           raw  |-> [width |-> 720, height |-> 525],
           crop |-> [width |-> 720, height |-> 480, top |-> 13, left |-> 0]]
     ELSE [v4l2_id |-> V4L2_STD_PAL, name |-> "PAL",
           raw  |-> [width |-> 720, height |-> 625],
           crop |-> [width |-> 720, height |-> 576, top |-> 0, left |-> 0]]]

(* ------------------------------------------------------------------ *)
(* Bit arithmetic on u8 register values                               *)
(* ------------------------------------------------------------------ *)
RECURSIVE BitAnd(_, _)
BitAnd(a, b) ==
  IF a = 0 \/ b = 0 THEN 0
  ELSE (a % 2) * (b % 2) + 2 * BitAnd(a \div 2, b \div 2)

RECURSIVE ShiftRight(_, _)
ShiftRight(a, n) == IF n = 0 THEN a ELSE ShiftRight(a \div 2, n - 1)

\* ad_result = (stat1 & ADV7180_AD_RESULT_MASK) >> ADV7180_AD_RESULT_BIT
AdResult(stat1) ==
  ShiftRight(BitAnd(stat1, ADV7180_AD_RESULT_MASK), ADV7180_AD_RESULT_BIT)

\* The switch of adv7180_get_autodetect_std: the v4l2 standard of a code.
\* std is initialised to V4L2_STD_PAL and every case assigns it.
AutodetectStd(ad_result) ==
  CASE ad_result = ADV7180_AD_PAL       -> V4L2_STD_PAL
    [] ad_result = ADV7180_AD_PAL_M     -> V4L2_STD_PAL_M
    [] ad_result = ADV7180_AD_PAL_N     -> V4L2_STD_PAL_N
    [] ad_result = ADV7180_AD_PAL_60    -> V4L2_STD_PAL_60
    [] ad_result = ADV7180_AD_NTSC      -> V4L2_STD_NTSC
    [] ad_result = ADV7180_AD_NTSC_4_43 -> V4L2_STD_NTSC_443
    [] ad_result = ADV7180_AD_SECAM     -> V4L2_STD_SECAM
    [] ad_result = ADV7180_AD_SECAM_525 -> V4L2_STD_SECAM
    [] OTHER                            -> V4L2_STD_PAL

\* The same switch: the video_fmts index of a code (idx starts as ADV7180_PAL).
AutodetectIdx(ad_result) ==
  CASE ad_result = ADV7180_AD_PAL       -> ADV7180_PAL
    [] ad_result = ADV7180_AD_PAL_M     -> ADV7180_NTSC
    [] ad_result = ADV7180_AD_PAL_N     -> ADV7180_PAL
    [] ad_result = ADV7180_AD_PAL_60    -> ADV7180_NTSC
    [] ad_result = ADV7180_AD_NTSC      -> ADV7180_NTSC
    [] ad_result = ADV7180_AD_NTSC_4_43 -> ADV7180_NTSC
    [] ad_result = ADV7180_AD_SECAM     -> ADV7180_PAL
    [] ad_result = ADV7180_AD_SECAM_525 -> ADV7180_NTSC
    [] OTHER                            -> ADV7180_PAL

\* Fault: a latched SD_UNLOCK is not counted as a change.
LockStatusChange_NoUnlock(int_stat1, int_stat3) ==
  \/ BitAnd(int_stat1, ADV7180_INT_SD_LOCK) # 0
  \/ BitAnd(int_stat3, ADV7180_INT_SD_V_LOCK_CHNG) # 0

\* Fault: any latched bit of INT_STATUS_3 counts, SD_AD_CHNG included.
LockStatusChange_AnyStat3(int_stat1, int_stat3) ==
  \/ BitAnd(int_stat1, ADV7180_INT_SD_LOCK) # 0
  \/ BitAnd(int_stat1, ADV7180_INT_SD_UNLOCK) # 0
  \/ int_stat3 # 0

\* *status_change of adv7180_update_lock_status.
LockStatusChange(int_stat1, int_stat3) ==
  \/ BitAnd(int_stat1, ADV7180_INT_SD_LOCK) # 0
  \/ BitAnd(int_stat1, ADV7180_INT_SD_UNLOCK) # 0
  \/ BitAnd(int_stat3, ADV7180_INT_SD_V_LOCK_CHNG) # 0

\* Fault: the subcarrier lock is left out of the conjunction.
LockedValue_NoFscLock(stat1, int_raw_stat3) ==
  /\ BitAnd(stat1, ADV7180_IN_LOCK) # 0
  /\ BitAnd(int_raw_stat3, ADV7180_INT_SD_V_LOCK) # 0

\* sensor->locked as adv7180_update_lock_status computes it.
LockedValue(stat1, int_raw_stat3) ==
  /\ BitAnd(stat1, ADV7180_IN_LOCK) # 0
  /\ BitAnd(stat1, ADV7180_FSC_LOCK) # 0
  /\ BitAnd(int_raw_stat3, ADV7180_INT_SD_V_LOCK) # 0

(* ------------------------------------------------------------------ *)
(* Values the hardware may return on a register read, and i2c errors  *)
(* ------------------------------------------------------------------ *)
\* A read returns a value the hardware chose; which values it can choose
\* depends on what is connected to the analog input, the signal of the run:
\*   "free"      anything: every combination of the lock bits under every
\*               autodetect code, every combination of the latched interrupts;
\*   "switching" a source that comes, goes and changes standard: unlocked, and
\*               locked with NTSC, PAL, SECAM and SECAM 525;
\*   "steady"    a locked SECAM source that stays.
\* STATUS_1: IN_LOCK, FSC_LOCK, both, both with LOST_LOCK, under codes 0..7.
Stat1LockBits == {1, 4, 5, 7}
Stat1Wide == {l + 16 * c : l \in Stat1LockBits, c \in 0..7}
Stat1Narrow == {1, 5, 69, 85, 117}
Stat1Steady == {85}
\* INT_STATUS_1 (SD_LOCK, SD_UNLOCK) and INT_STATUS_3 (SD_V_LOCK_CHNG,
\* SD_AD_CHNG).
IntStat1Wide == {0, 1, 2, 3}
IntStat1Narrow == {0, 2}
IntStat1Steady == {0}
IntStat3Wide == {0, 2, 8, 10}
IntStat3Narrow == {0, 8}
IntStat3Steady == {8}
\* INT_RAW_STATUS_3: SD_V_LOCK alone, and every bit but SD_V_LOCK.
IntRawStat3Vals == {2, 253}
IntRawStat3Steady == {2}
\* The runs explored, as <<has_irq, signal>>: a device without an interrupt
\* line is polled by one thread and gets the free signal; beside the irq
\* handler every value multiplies the interleavings, and the signal is one of
\* the two narrower ones.
Scenarios == {<<FALSE, "free">>, <<TRUE, "switching">>, <<TRUE, "steady">>}
\* What i2c_smbus_read_byte_data / i2c_smbus_write_byte_data return on failure.
\* -EIO and -ENXIO stand for them.
I2cErrors == {0 - 5, 0 - 6}

(* ------------------------------------------------------------------ *)
(* State                                                              *)
(* ------------------------------------------------------------------ *)
IrqThread == "irq"
ApiThread == "api"
Threads == {IrqThread, ApiThread}
NoOwner == "none"

VARIABLES
  \* struct adv7180_dev
  locked, std_id, video_idx, fmt, current_input,
  brightness, contrast, saturation, hue,
  mutex,        \* owner of sensor->mutex, or NoOwner
  has_irq,      \* sensor->i2c_client->irq != 0
  signal,       \* what the analog input does over the run (see Scenarios)
  \* the chip: the bank-select register 0x0E
  bank,
  \* per thread
  pc,           \* position in the running function
  op,           \* the entry point the thread is running
  loc,          \* its local variables
  bus,          \* the register accesses of the driver function the thread
                \* is in, in order; empty again once it has returned
  out,          \* what the call has stored through its output pointers
  result,       \* the return value of the call, once pc is "done"
  notified,     \* v4l2_subdev_notify calls of the running handler
  calls,        \* control and routing calls made so far
  on,           \* sensor->on: the chip has been powered up
  supplies,     \* the regulators of the chip are enabled
  irq_requested \* adv7180_interrupt is registered for the irq line

sensorvars == <<locked, std_id, video_idx, fmt, current_input,
                brightness, contrast, saturation, hue>>
vars == <<locked, std_id, video_idx, fmt, current_input,
          brightness, contrast, saturation, hue, mutex, has_irq, signal,
          bank, pc, op, loc, bus, out, result, notified, calls,
          on, supplies, irq_requested>>
\* What no call made between attach and detach changes.
envvars == <<has_irq, signal, on, supplies, irq_requested>>

\* The values a read of each status register can return in this run.
Stat1Values ==
  CASE signal = "free" -> Stat1Wide
    [] signal = "switching" -> Stat1Narrow
    [] OTHER -> Stat1Steady
IntStat1Values ==
  CASE signal = "free" -> IntStat1Wide
    [] signal = "switching" -> IntStat1Narrow
    [] OTHER -> IntStat1Steady
IntStat3Values ==
  CASE signal = "free" -> IntStat3Wide
    [] signal = "switching" -> IntStat3Narrow
    [] OTHER -> IntStat3Steady
IntRawStat3Values ==
  IF signal = "steady" THEN IntRawStat3Steady ELSE IntRawStat3Vals

\* Locals of a call before anything is assigned.  lsc_stored tells whether
\* adv7180_update_lock_status has stored through its status_change pointer;
\* prev_std is the value of sensor->std_id the comparison of
\* adv7180_get_autodetect_std read; uls_ret and ad_ret are the values the two
\* detector calls returned to the caller.
NoFrame ==
  [ret |-> 0, stat1 |-> 0, int_stat1 |-> 0, int_stat3 |-> 0,
   int_raw_stat3 |-> 0, lock_status_change |-> FALSE, lsc_stored |-> FALSE,
   std_change |-> FALSE, prev_std |-> "none", uls_ret |-> 0, ad_ret |-> 0,
   id |-> "none", val |-> 0, input |-> 0, todo |-> {}, rev_id |-> 0]

NoOut ==
  [std |-> "none", width |-> 0, height |-> 0, top |-> 0, left |-> 0,
   status |-> {}]

\* The state probe leaves behind before it looks at the signal: the default
\* standard from the "default-std" property, the frame size of that standard,
\* locked false (kzalloc), input Ain1 and the control defaults written by
\* v4l2_ctrl_handler_setup.
InitIn(scenarios) ==
  /\ \E norm \in {ADV7180_PAL, ADV7180_NTSC} :
       /\ video_idx = norm
       /\ std_id = video_fmts[norm].v4l2_id
       /\ fmt = [width  |-> video_fmts[norm].raw.width,
                 height |-> video_fmts[norm].raw.height,
                 code   |-> "MEDIA_BUS_FMT_UYVY8_2X8",
                 field  |-> "V4L2_FIELD_SEQ_BT"]
  /\ locked = FALSE
  /\ current_input = 0
  /\ brightness = 0 /\ contrast = 128 /\ saturation = 128 /\ hue = 0
  /\ mutex = NoOwner
  /\ \E sc \in scenarios : has_irq = sc[1] /\ signal = sc[2]
  /\ bank = BANK_NORMAL
  /\ pc = [t \in Threads |-> "idle"]
  /\ op = [t \in Threads |-> "none"]
  /\ loc = [t \in Threads |-> NoFrame]
  /\ bus = [t \in Threads |-> <<>>]
  /\ out = [t \in Threads |-> NoOut]
  /\ result = [t \in Threads |-> 0]
  /\ notified = 0
  /\ calls = 0
  /\ on = TRUE /\ supplies = TRUE /\ irq_requested = has_irq

Init == InitIn(Scenarios)

(* ------------------------------------------------------------------ *)
(* Register access                                                    *)
(* ------------------------------------------------------------------ *)
BusEntry(kind, reg, val, ok) ==
  [kind |-> kind, reg |-> reg, val |-> val, ok |-> ok, bank |-> bank]

\* adv7180_read_reg at position `at`: on success the value goes to the local
\* `field` and control moves to okpc; on failure ret holds the error and
\* control moves to failpc (ADV7180_READ_REG returns from the function).
ReadReg(t, at, reg, field, vals, okpc, failpc) ==
  /\ pc[t] = at
  /\ \/ \E v \in vals :
          /\ loc' = [loc EXCEPT ![t][field] = v, ![t].ret = 0]
          /\ bus' = [bus EXCEPT ![t] = Append(@, BusEntry("r", reg, v, TRUE))]
          /\ pc' = [pc EXCEPT ![t] = okpc]
     \/ \E e \in I2cErrors :
          /\ loc' = [loc EXCEPT ![t].ret = e]
          /\ bus' = [bus EXCEPT ![t] = Append(@, BusEntry("r", reg, 0, FALSE))]
          /\ pc' = [pc EXCEPT ![t] = failpc]
  /\ UNCHANGED bank

\* adv7180_write_reg at position `at`; a write to 0x0E that succeeds switches
\* the chip's register bank.
WriteReg(t, at, reg, val, okpc, failpc) ==
  /\ pc[t] = at
  /\ \/ /\ loc' = [loc EXCEPT ![t].ret = 0]
        /\ bus' = [bus EXCEPT ![t] = Append(@, BusEntry("w", reg, val, TRUE))]
        /\ bank' = IF reg = ADV7180_BANK_SEL THEN val ELSE bank
        /\ pc' = [pc EXCEPT ![t] = okpc]
     \/ \E e \in I2cErrors :
          /\ loc' = [loc EXCEPT ![t].ret = e]
          /\ bus' = [bus EXCEPT ![t] = Append(@, BusEntry("w", reg, val, FALSE))]
          /\ bank' = bank
          /\ pc' = [pc EXCEPT ![t] = failpc]

(* ------------------------------------------------------------------ *)
(* adv7180_update_lock_status                                         *)
(* ------------------------------------------------------------------ *)
UlsReadStatus1(t) ==
  /\ ReadReg(t, "uls_rd_stat1", ADV7180_STATUS_1, "stat1",
             Stat1Values,
             "uls_wr_bank_int", "uls_ret")
  /\ UNCHANGED <<sensorvars, mutex, envvars, calls, op, out, result, notified>>

UlsBankInterrupt(t) ==
  /\ WriteReg(t, "uls_wr_bank_int", ADV7180_BANK_SEL, BANK_INTERRUPT,
              "uls_rd_int1", "uls_ret")
  /\ UNCHANGED <<sensorvars, mutex, envvars, calls, op, out, result, notified>>

UlsReadIntStatus1(t) ==
  /\ ReadReg(t, "uls_rd_int1", ADV7180_INT_STATUS_1, "int_stat1",
             IntStat1Values,
             "uls_rd_int3", "uls_ret")
  /\ UNCHANGED <<sensorvars, mutex, envvars, calls, op, out, result, notified>>

UlsReadIntStatus3(t) ==
  /\ ReadReg(t, "uls_rd_int3", ADV7180_INT_STATUS_3, "int_stat3",
             IntStat3Values,
             "uls_wr_clr1", "uls_ret")
  /\ UNCHANGED <<sensorvars, mutex, envvars, calls, op, out, result, notified>>

\* Fault: every bit of INT_CLEAR_1 is written, not the value read.
UlsClear1_ClearsAll(t) ==
  /\ WriteReg(t, "uls_wr_clr1", ADV7180_INT_CLEAR_1, 255,
              "uls_wr_clr3", "uls_ret")
  /\ UNCHANGED <<sensorvars, mutex, envvars, calls, op, out, result, notified>>

UlsClear1(t) ==
  /\ WriteReg(t, "uls_wr_clr1", ADV7180_INT_CLEAR_1, loc[t].int_stat1,
              "uls_wr_clr3", "uls_ret")
  /\ UNCHANGED <<sensorvars, mutex, envvars, calls, op, out, result, notified>>

UlsClear3(t) ==
  /\ WriteReg(t, "uls_wr_clr3", ADV7180_INT_CLEAR_3, loc[t].int_stat3,
              "uls_rd_raw3", "uls_ret")
  /\ UNCHANGED <<sensorvars, mutex, envvars, calls, op, out, result, notified>>

UlsReadRawStatus3(t) ==
  /\ ReadReg(t, "uls_rd_raw3", ADV7180_INT_RAW_STATUS_3, "int_raw_stat3",
             IntRawStat3Values, "uls_wr_bank_norm", "uls_ret")
  /\ UNCHANGED <<sensorvars, mutex, envvars, calls, op, out, result, notified>>

\* Fault: sensor->locked is assigned before the bank is switched back.
UlsBankNormal_LockedFirst(t) ==
  /\ WriteReg(t, "uls_wr_bank_norm", ADV7180_BANK_SEL, BANK_NORMAL,
              "uls_compute", "uls_ret")
  /\ locked' = LockedValue(loc[t].stat1, loc[t].int_raw_stat3)
  /\ UNCHANGED <<std_id, video_idx, fmt, current_input, brightness, contrast,
                 saturation, hue, mutex, envvars, calls, op, out, result,
                 notified>>

UlsBankNormal(t) ==
  /\ WriteReg(t, "uls_wr_bank_norm", ADV7180_BANK_SEL, BANK_NORMAL,
              "uls_compute", "uls_ret")
  /\ UNCHANGED <<sensorvars, mutex, envvars, calls, op, out, result, notified>>

\* *status_change = ...; sensor->locked = ...; return 0;
UlsCompute(t) ==
  /\ pc[t] = "uls_compute"
  /\ loc' = [loc EXCEPT
       ![t].lock_status_change =
          LockStatusChange(loc[t].int_stat1, loc[t].int_stat3),
       ![t].lsc_stored = TRUE,
       ![t].ret = 0]
  /\ locked' = LockedValue(loc[t].stat1, loc[t].int_raw_stat3)
  /\ pc' = [pc EXCEPT ![t] = "uls_ret"]
  /\ UNCHANGED <<std_id, video_idx, fmt, current_input, brightness, contrast,
                 saturation, hue, mutex, envvars, calls, bank, op, bus, out, result,
                 notified>>

\* The locals of adv7180_update_lock_status go out of scope on return; ret and
\* the status_change output stay with the caller.
DropUlsLocals(f) ==
  [f EXCEPT !.stat1 = 0, !.int_stat1 = 0, !.int_stat3 = 0, !.int_raw_stat3 = 0]

(* ------------------------------------------------------------------ *)
(* adv7180_get_autodetect_std                                         *)
(* ------------------------------------------------------------------ *)
\* Fault: the early return on !sensor->locked is missing.
AdEntry_NoLockedTest(t) ==
  /\ pc[t] = "ad_entry"
  /\ loc' = [loc EXCEPT ![t].std_change = FALSE]
  /\ pc' = [pc EXCEPT ![t] = "ad_rd_stat1"]
  /\ UNCHANGED <<sensorvars, mutex, envvars, calls, bank, op, bus, out, result,
                 notified>>

\* *status_change = false; if (!sensor->locked) return 0;
AdEntry(t) ==
  /\ pc[t] = "ad_entry"
  /\ IF ~locked
     THEN /\ loc' = [loc EXCEPT ![t].std_change = FALSE, ![t].ret = 0]
          /\ pc' = [pc EXCEPT ![t] = "ad_ret"]
     ELSE /\ loc' = [loc EXCEPT ![t].std_change = FALSE]
          /\ pc' = [pc EXCEPT ![t] = "ad_rd_stat1"]
  /\ UNCHANGED <<sensorvars, mutex, envvars, calls, bank, op, bus, out, result,
                 notified>>

AdReadStatus1(t) ==
  /\ ReadReg(t, "ad_rd_stat1", ADV7180_STATUS_1, "stat1",
             Stat1Values,
             "ad_cmp", "ad_ret")
  /\ UNCHANGED <<sensorvars, mutex, envvars, calls, op, out, result, notified>>

\* The locals std and idx after the switch.
AdStd(t) == AutodetectStd(AdResult(loc[t].stat1))
AdIdx(t) == AutodetectIdx(AdResult(loc[t].stat1))

\* Fault: the update is made whether or not the standard differs.
StdDiffers_Always(std, stored) == TRUE

\* The test of `if (std != sensor->std_id)`.
StdDiffers(std, stored) == std # stored

\* The switch, then if (std != sensor->std_id); prev_std keeps the value of
\* sensor->std_id the comparison read.
AdCompare(t) ==
  /\ pc[t] = "ad_cmp"
  /\ IF StdDiffers(AdStd(t), std_id)
     THEN /\ loc' = [loc EXCEPT ![t].prev_std = std_id]
          /\ pc' = [pc EXCEPT ![t] = "ad_set_idx"]
     ELSE /\ loc' = [loc EXCEPT ![t].prev_std = std_id, ![t].ret = 0]
          /\ pc' = [pc EXCEPT ![t] = "ad_ret"]
  /\ UNCHANGED <<sensorvars, mutex, envvars, calls, bank, op, bus, out, result,
                 notified>>

\* sensor->video_idx = idx;
AdSetIdx(t) ==
  /\ pc[t] = "ad_set_idx"
  /\ video_idx' = AdIdx(t)
  /\ pc' = [pc EXCEPT ![t] = "ad_set_std"]
  /\ UNCHANGED <<locked, std_id, fmt, current_input, brightness, contrast,
                 saturation, hue, mutex, envvars, calls, bank, op, loc, bus, out,
                 result, notified>>

\* Fault: the new standard is not stored.
AdSetStd_NotStored(t) ==
  /\ pc[t] = "ad_set_std"
  /\ pc' = [pc EXCEPT ![t] = "ad_set_width"]
  /\ UNCHANGED <<sensorvars, mutex, envvars, calls, bank, op, loc, bus, out,
                 result, notified>>

\* sensor->std_id = std;
AdSetStd(t) ==
  /\ pc[t] = "ad_set_std"
  /\ std_id' = AdStd(t)
  /\ pc' = [pc EXCEPT ![t] = "ad_set_width"]
  /\ UNCHANGED <<locked, video_idx, fmt, current_input, brightness, contrast,
                 saturation, hue, mutex, envvars, calls, bank, op, loc, bus, out,
                 result, notified>>

\* sensor->fmt.width = video_fmts[sensor->video_idx].raw.width;
AdSetWidth(t) ==
  /\ pc[t] = "ad_set_width"
  /\ fmt' = [fmt EXCEPT !.width = video_fmts[video_idx].raw.width]
  /\ pc' = [pc EXCEPT ![t] = "ad_set_height"]
  /\ UNCHANGED <<locked, std_id, video_idx, current_input, brightness,
                 contrast, saturation, hue, mutex, envvars, calls, bank, op, loc, bus,
                 out, result, notified>>

\* sensor->fmt.height = video_fmts[sensor->video_idx].raw.height;
AdSetHeight(t) ==
  /\ pc[t] = "ad_set_height"
  /\ fmt' = [fmt EXCEPT !.height = video_fmts[video_idx].raw.height]
  /\ pc' = [pc EXCEPT ![t] = "ad_set_chg"]
  /\ UNCHANGED <<locked, std_id, video_idx, current_input, brightness,
                 contrast, saturation, hue, mutex, envvars, calls, bank, op, loc, bus,
                 out, result, notified>>

\* *status_change = true; ... return 0;
AdSetChanged(t) ==
  /\ pc[t] = "ad_set_chg"
  /\ loc' = [loc EXCEPT ![t].std_change = TRUE, ![t].ret = 0]
  /\ pc' = [pc EXCEPT ![t] = "ad_ret"]
  /\ UNCHANGED <<sensorvars, mutex, envvars, calls, bank, op, bus, out, result,
                 notified>>

\* The locals of adv7180_get_autodetect_std go out of scope on return.
DropAdLocals(f) == [f EXCEPT !.stat1 = 0, !.prev_std = "none"]

(* ------------------------------------------------------------------ *)
(* adv7180_interrupt, the threaded irq handler                        *)
(* ------------------------------------------------------------------ *)
\* The handler runs once request_threaded_irq has registered it, which
\* adv7180_probe does only when the client has an irq.  Its locals
\* std_change and lock_status_change start uninitialised.
IrqEnter(t) ==
  /\ t = IrqThread /\ irq_requested
  /\ pc[t] = "idle"
  /\ loc' = [loc EXCEPT ![t] = NoFrame]
  /\ op' = [op EXCEPT ![t] = "adv7180_interrupt"]
  /\ pc' = [pc EXCEPT ![t] = "irq_lock"]
  /\ UNCHANGED <<sensorvars, mutex, envvars, calls, bank, bus, out, result, notified>>

\* mutex_lock(&sensor->mutex);
IrqMutexLock(t) ==
  /\ pc[t] = "irq_lock"
  /\ mutex = NoOwner
  /\ mutex' = t
  /\ pc' = [pc EXCEPT ![t] = "uls_rd_stat1"]
  /\ UNCHANGED <<sensorvars, envvars, calls, bank, op, loc, bus, out, result, notified>>

\* Fault: the handler returns the error of adv7180_update_lock_status at
\* once, as adv7180_querystd does, but without its goto unlock.
IrqAfterUpdateLock_ReturnsError(t) ==
  /\ pc[t] = "uls_ret" /\ op[t] = "adv7180_interrupt"
  /\ loc' = [loc EXCEPT ![t] = [DropUlsLocals(@) EXCEPT !.uls_ret = loc[t].ret]]
  /\ bus' = [bus EXCEPT ![t] = <<>>]
  /\ IF loc[t].ret # 0
     THEN /\ pc' = [pc EXCEPT ![t] = "done"]
          /\ result' = [result EXCEPT ![t] = loc[t].ret]
     ELSE /\ pc' = [pc EXCEPT ![t] = "ad_entry"]
          /\ UNCHANGED result
  /\ UNCHANGED <<sensorvars, mutex, envvars, calls, bank, op, out, notified>>

\* Fault: the mutex is dropped between the two calls of the handler.
IrqAfterUpdateLock_DropsMutex(t) ==
  /\ pc[t] = "uls_ret" /\ op[t] = "adv7180_interrupt"
  /\ loc' = [loc EXCEPT ![t] = [DropUlsLocals(@) EXCEPT !.uls_ret = loc[t].ret]]
  /\ bus' = [bus EXCEPT ![t] = <<>>]
  /\ pc' = [pc EXCEPT ![t] = "ad_entry"]
  /\ mutex' = NoOwner
  /\ UNCHANGED <<sensorvars, envvars, calls, bank, op, out, result, notified>>

\* adv7180_update_lock_status(sensor, &lock_status_change); its return value
\* is dropped.
IrqAfterUpdateLock(t) ==
  /\ pc[t] = "uls_ret" /\ op[t] = "adv7180_interrupt"
  /\ loc' = [loc EXCEPT ![t] = [DropUlsLocals(@) EXCEPT !.uls_ret = loc[t].ret]]
  /\ bus' = [bus EXCEPT ![t] = <<>>]
  /\ pc' = [pc EXCEPT ![t] = "ad_entry"]
  /\ UNCHANGED <<sensorvars, mutex, envvars, calls, bank, op, out, result, notified>>

\* adv7180_get_autodetect_std(sensor, &std_change); its return value is
\* dropped too.
IrqAfterAutodetect(t) ==
  /\ pc[t] = "ad_ret" /\ op[t] = "adv7180_interrupt"
  /\ loc' = [loc EXCEPT ![t] = [DropAdLocals(@) EXCEPT !.ad_ret = loc[t].ret]]
  /\ bus' = [bus EXCEPT ![t] = <<>>]
  /\ pc' = [pc EXCEPT ![t] = "irq_unlock"]
  /\ UNCHANGED <<sensorvars, mutex, envvars, calls, bank, op, out, result, notified>>

\* Fault: the handler goes on to the notification with the mutex held.
IrqMutexUnlock_StillHeld(t) ==
  /\ pc[t] = "irq_unlock"
  /\ pc' = [pc EXCEPT ![t] = "irq_test"]
  /\ UNCHANGED <<sensorvars, mutex, envvars, calls, bank, op, loc, bus, out, result,
                 notified>>

\* mutex_unlock(&sensor->mutex);
IrqMutexUnlock(t) ==
  /\ pc[t] = "irq_unlock"
  /\ mutex' = NoOwner
  /\ pc' = [pc EXCEPT ![t] = "irq_test"]
  /\ UNCHANGED <<sensorvars, envvars, calls, bank, op, loc, bus, out, result,
                 notified>>

\* Fault: && in place of ||.
NotifyWanted_Both(lock_status_change, std_change) ==
  lock_status_change /\ std_change

\* if (lock_status_change || std_change)
NotifyWanted(lock_status_change, std_change) ==
  lock_status_change \/ std_change

\* lock_status_change is read here even when adv7180_update_lock_status
\* returned early without storing it: the read of the uninitialised local
\* then yields either boolean.  std_change is always stored (first statement
\* of adv7180_get_autodetect_std).
IrqTest(t) ==
  /\ pc[t] = "irq_test"
  /\ \E lsc \in (IF loc[t].lsc_stored THEN {loc[t].lock_status_change}
                 ELSE BOOLEAN) :
       IF NotifyWanted(lsc, loc[t].std_change)
       THEN /\ pc' = [pc EXCEPT ![t] = "irq_notify"]
            /\ UNCHANGED result
       ELSE /\ pc' = [pc EXCEPT ![t] = "done"]
            /\ result' = [result EXCEPT ![t] = IRQ_HANDLED]
  /\ UNCHANGED <<sensorvars, mutex, envvars, calls, bank, op, loc, bus, out, notified>>

\* v4l2_subdev_notify(&sensor->sd, DECODER_STATUS_CHANGE_NOTIFY, NULL);
\* return IRQ_HANDLED;
IrqNotify(t) ==
  /\ pc[t] = "irq_notify"
  /\ notified' = notified + 1
  /\ result' = [result EXCEPT ![t] = IRQ_HANDLED]
  /\ pc' = [pc EXCEPT ![t] = "done"]
  /\ UNCHANGED <<sensorvars, mutex, envvars, calls, bank, op, loc, bus, out>>

(* ------------------------------------------------------------------ *)
(* adv7180_querystd                                                   *)
(* ------------------------------------------------------------------ *)
QuerystdEnter(t) ==
  /\ t = ApiThread
  /\ pc[t] = "idle"
  /\ op' = [op EXCEPT ![t] = "adv7180_querystd"]
  /\ loc' = [loc EXCEPT ![t] = NoFrame]
  /\ pc' = [pc EXCEPT ![t] = "qs_lock"]
  /\ UNCHANGED <<sensorvars, mutex, envvars, calls, bank, bus, out, result, notified>>

\* mutex_lock(&sensor->mutex); if (!sensor->i2c_client->irq) { ... }
QuerystdMutexLock(t) ==
  /\ pc[t] = "qs_lock"
  /\ mutex = NoOwner
  /\ mutex' = t
  /\ pc' = [pc EXCEPT ![t] = IF ~has_irq THEN "uls_rd_stat1" ELSE "qs_deliver"]
  /\ UNCHANGED <<sensorvars, envvars, calls, bank, op, loc, bus, out, result, notified>>

\* Fault: the `if (ret) goto unlock` after adv7180_update_lock_status is
\* missing.
QuerystdAfterUpdateLock_NoGoto(t) ==
  /\ pc[t] = "uls_ret" /\ op[t] = "adv7180_querystd"
  /\ loc' = [loc EXCEPT ![t] = [DropUlsLocals(@) EXCEPT !.uls_ret = loc[t].ret]]
  /\ bus' = [bus EXCEPT ![t] = <<>>]
  /\ pc' = [pc EXCEPT ![t] = "ad_entry"]
  /\ UNCHANGED <<sensorvars, mutex, envvars, calls, bank, op, out, result, notified>>

\* Fault: the error of adv7180_update_lock_status is returned at once, past
\* the mutex_unlock.
QuerystdAfterUpdateLock_ReturnsLocked(t) ==
  /\ pc[t] = "uls_ret" /\ op[t] = "adv7180_querystd"
  /\ loc' = [loc EXCEPT ![t] = [DropUlsLocals(@) EXCEPT !.uls_ret = loc[t].ret]]
  /\ bus' = [bus EXCEPT ![t] = <<>>]
  /\ IF loc[t].ret # 0
     THEN /\ pc' = [pc EXCEPT ![t] = "done"]
          /\ result' = [result EXCEPT ![t] = loc[t].ret]
     ELSE /\ pc' = [pc EXCEPT ![t] = "ad_entry"]
          /\ UNCHANGED result
  /\ UNCHANGED <<sensorvars, mutex, envvars, calls, bank, op, out, notified>>

\* ret = adv7180_update_lock_status(sensor, &lsc); if (ret) goto unlock;
QuerystdAfterUpdateLock(t) ==
  /\ pc[t] = "uls_ret" /\ op[t] = "adv7180_querystd"
  /\ loc' = [loc EXCEPT ![t] = [DropUlsLocals(@) EXCEPT !.uls_ret = loc[t].ret]]
  /\ bus' = [bus EXCEPT ![t] = <<>>]
  /\ pc' = [pc EXCEPT ![t] = IF loc[t].ret # 0 THEN "qs_unlock" ELSE "ad_entry"]
  /\ UNCHANGED <<sensorvars, mutex, envvars, calls, bank, op, out, result, notified>>

\* ret = adv7180_get_autodetect_std(sensor, &std_change); if (ret) goto unlock;
QuerystdAfterAutodetect(t) ==
  /\ pc[t] = "ad_ret" /\ op[t] = "adv7180_querystd"
  /\ loc' = [loc EXCEPT ![t] = [DropAdLocals(@) EXCEPT !.ad_ret = loc[t].ret]]
  /\ bus' = [bus EXCEPT ![t] = <<>>]
  /\ pc' = [pc EXCEPT ![t] = IF loc[t].ret # 0 THEN "qs_unlock" ELSE "qs_deliver"]
  /\ UNCHANGED <<sensorvars, mutex, envvars, calls, bank, op, out, result, notified>>

\* *std = sensor->std_id;
QuerystdDeliver(t) ==
  /\ pc[t] = "qs_deliver"
  /\ out' = [out EXCEPT ![t].std = std_id]
  /\ pc' = [pc EXCEPT ![t] = "qs_unlock"]
  /\ UNCHANGED <<sensorvars, mutex, envvars, calls, bank, op, loc, bus, result,
                 notified>>

\* unlock: mutex_unlock(&sensor->mutex); return ret;
QuerystdMutexUnlock(t) ==
  /\ pc[t] = "qs_unlock"
  /\ mutex' = NoOwner
  /\ result' = [result EXCEPT ![t] = loc[t].ret]
  /\ pc' = [pc EXCEPT ![t] = "done"]
  /\ UNCHANGED <<sensorvars, envvars, calls, bank, op, loc, bus, out, notified>>

(* ------------------------------------------------------------------ *)
(* Format and crop queries: none of them takes sensor->mutex          *)
(* ------------------------------------------------------------------ *)
MbusFmtOps ==
  {"adv7180_g_mbus_fmt", "adv7180_try_mbus_fmt", "adv7180_s_mbus_fmt"}

\* adv7180_g_mbus_fmt, adv7180_try_mbus_fmt and adv7180_s_mbus_fmt have the
\* same body, *fmt = sensor->fmt.  The members of the structure are loaded one
\* at a time, in an order the compiler chooses; code and field never change
\* after probe and are left out.
MbusFmtEnter(t, o) ==
  /\ t = ApiThread
  /\ pc[t] = "idle"
  /\ op' = [op EXCEPT ![t] = o]
  /\ loc' = [loc EXCEPT ![t] = [NoFrame EXCEPT !.todo = {"width", "height"}]]
  /\ pc' = [pc EXCEPT ![t] = "fmt_copy"]
  /\ UNCHANGED <<sensorvars, mutex, envvars, calls, bank, bus, out, result, notified>>

MbusFmtCopy(t) ==
  /\ pc[t] = "fmt_copy"
  /\ \E f \in loc[t].todo :
       /\ out' = [out EXCEPT ![t][f] = fmt[f]]
       /\ loc' = [loc EXCEPT ![t].todo = @ \ {f}]
       /\ IF loc[t].todo = {f}
          THEN /\ pc' = [pc EXCEPT ![t] = "done"]
               /\ result' = [result EXCEPT ![t] = 0]
          ELSE UNCHANGED <<pc, result>>
  /\ UNCHANGED <<sensorvars, mutex, envvars, calls, bank, op, bus, notified>>

\* adv7180_g_crop: a->c = video_fmts[sensor->video_idx].crop, one load of
\* video_idx and a copy out of the constant table.
GCropEnter(t) ==
  /\ t = ApiThread
  /\ pc[t] = "idle"
  /\ op' = [op EXCEPT ![t] = "adv7180_g_crop"]
  /\ loc' = [loc EXCEPT ![t] = NoFrame]
  /\ pc' = [pc EXCEPT ![t] = "crop_copy"]
  /\ UNCHANGED <<sensorvars, mutex, envvars, calls, bank, bus, out, result, notified>>

GCropCopy(t) ==
  /\ pc[t] = "crop_copy"
  /\ out' = [out EXCEPT ![t].width  = video_fmts[video_idx].crop.width,
                        ![t].height = video_fmts[video_idx].crop.height,
                        ![t].top    = video_fmts[video_idx].crop.top,
                        ![t].left   = video_fmts[video_idx].crop.left]
  /\ result' = [result EXCEPT ![t] = 0]
  /\ pc' = [pc EXCEPT ![t] = "done"]
  /\ UNCHANGED <<sensorvars, mutex, envvars, calls, bank, op, loc, bus, notified>>

\* adv7180_enum_framesizes: if (fsize->index > 0) return -EINVAL; then two
\* statements, each with its own load of sensor->video_idx.
EnumFramesizesEnter(t) ==
  /\ t = ApiThread
  /\ pc[t] = "idle"
  /\ op' = [op EXCEPT ![t] = "adv7180_enum_framesizes"]
  /\ loc' = [loc EXCEPT ![t] = NoFrame]
  /\ \E index \in {0, 1} :
       IF index > 0
       THEN /\ pc' = [pc EXCEPT ![t] = "done"]
            /\ result' = [result EXCEPT ![t] = 0 - EINVAL]
       ELSE /\ pc' = [pc EXCEPT ![t] = "efs_width"]
            /\ UNCHANGED result
  /\ UNCHANGED <<sensorvars, mutex, envvars, calls, bank, bus, out, notified>>

EnumFramesizesWidth(t) ==
  /\ pc[t] = "efs_width"
  /\ out' = [out EXCEPT ![t].width = video_fmts[video_idx].crop.width]
  /\ pc' = [pc EXCEPT ![t] = "efs_height"]
  /\ UNCHANGED <<sensorvars, mutex, envvars, calls, bank, op, loc, bus, result,
                 notified>>

EnumFramesizesHeight(t) ==
  /\ pc[t] = "efs_height"
  /\ out' = [out EXCEPT ![t].height = video_fmts[video_idx].crop.height]
  /\ result' = [result EXCEPT ![t] = 0]
  /\ pc' = [pc EXCEPT ![t] = "done"]
  /\ UNCHANGED <<sensorvars, mutex, envvars, calls, bank, op, loc, bus, notified>>

(* ------------------------------------------------------------------ *)
(* adv7180_s_ctrl: the control setters                                *)
(* ------------------------------------------------------------------ *)
\* The mirrored control values and the selected input outlive every call, so
\* a run makes at most MaxCtrlCalls control and routing calls.
MaxCtrlCalls == 2
\* Without the handler beside them the calls take their values from wider
\* sets, and a run makes at most MaxSeqCalls of them.
MaxSeqCalls == 1
CallLimit == IF has_irq THEN MaxCtrlCalls ELSE MaxSeqCalls

\* The controls of adv7180_qctrl[], the only ones the control framework
\* hands to adv7180_s_ctrl.
V4L2_CID_BRIGHTNESS == "V4L2_CID_BRIGHTNESS"
V4L2_CID_SATURATION == "V4L2_CID_SATURATION"
V4L2_CID_CONTRAST == "V4L2_CID_CONTRAST"
V4L2_CID_HUE == "V4L2_CID_HUE"
adv7180_qctrl ==
  {V4L2_CID_BRIGHTNESS, V4L2_CID_SATURATION, V4L2_CID_CONTRAST, V4L2_CID_HUE}

\* The values a caller sets: the framework lets through minimum..maximum of
\* the control.  Beside the handler one value other than the default stands
\* for the range of brightness, saturation and contrast; for hue a negative
\* value and the maximum, so that the sign inversion shows at both ends.
\* Without the handler hue takes every value of its range -127..128 and
\* saturation both ends of 0..255, the default and 200.
CtrlValues(id) ==
  CASE id = V4L2_CID_BRIGHTNESS -> {255}
    [] id = V4L2_CID_SATURATION ->
         IF has_irq THEN {255} ELSE {0, 128, 200, 255}
    [] id = V4L2_CID_CONTRAST   -> {64}
    [] id = V4L2_CID_HUE        ->
         IF has_irq THEN {0 - 127, 128} ELSE (0 - 127)..128

\* Truncation of an int to u8.
U8(x) == x % 256

\* The first register a control writes.
CtrlReg(id) ==
  CASE id = V4L2_CID_BRIGHTNESS -> ADV7180_BRIGHTNESS
    [] id = V4L2_CID_SATURATION -> ADV7180_SD_SATURATION_CB
    [] id = V4L2_CID_CONTRAST   -> ADV7180_CONTRAST
    [] id = V4L2_CID_HUE        -> ADV7180_HUE_REG

\* Fault: the hue byte is not inverted.
CtrlByte_NotInverted(id, val) == U8(val)

\* The byte written: tmp = ctrl->val, and -tmp for hue.
CtrlByte(id, val) ==
  IF id = V4L2_CID_HUE THEN U8(0 - U8(val)) ELSE U8(val)

\* adv7180_s_ctrl is entered without sensor->mutex; it never takes it.
CtrlEnter(t) ==
  /\ t = ApiThread
  /\ pc[t] = "idle"
  /\ calls < CallLimit
  /\ calls' = calls + 1
  /\ \E id \in adv7180_qctrl : \E val \in CtrlValues(id) :
       loc' = [loc EXCEPT ![t] = [NoFrame EXCEPT !.id = id, !.val = val]]
  /\ op' = [op EXCEPT ![t] = "adv7180_s_ctrl"]
  /\ pc' = [pc EXCEPT ![t] = "ctrl_wr"]
  /\ UNCHANGED <<sensorvars, mutex, envvars, bank, bus, out, result, notified>>

\* Fault: saturation writes ADV7180_SD_SATURATION_CB only.
CtrlWrite_CbOnly(t) ==
  /\ WriteReg(t, "ctrl_wr", CtrlReg(loc[t].id), CtrlByte(loc[t].id, loc[t].val),
              "ctrl_set", "ctrl_fail")
  /\ UNCHANGED <<sensorvars, mutex, envvars, calls, op, out, result, notified>>

\* ADV7180_WRITE_REG of the control's register; on failure the macro returns
\* ret from the function.
CtrlWrite(t) ==
  /\ WriteReg(t, "ctrl_wr", CtrlReg(loc[t].id), CtrlByte(loc[t].id, loc[t].val),
              IF loc[t].id = V4L2_CID_SATURATION THEN "ctrl_wr2" ELSE "ctrl_set",
              "ctrl_fail")
  /\ UNCHANGED <<sensorvars, mutex, envvars, calls, op, out, result, notified>>

\* Fault: the result of the second saturation write is not tested.
CtrlWriteCr_NotTested(t) ==
  /\ WriteReg(t, "ctrl_wr2", ADV7180_SD_SATURATION_CR,
              CtrlByte(loc[t].id, loc[t].val), "ctrl_set", "ctrl_set")
  /\ UNCHANGED <<sensorvars, mutex, envvars, calls, op, out, result, notified>>

\* Saturation: the same byte to ADV7180_SD_SATURATION_CR.
CtrlWriteCr(t) ==
  /\ WriteReg(t, "ctrl_wr2", ADV7180_SD_SATURATION_CR,
              CtrlByte(loc[t].id, loc[t].val), "ctrl_set", "ctrl_fail")
  /\ UNCHANGED <<sensorvars, mutex, envvars, calls, op, out, result, notified>>

\* sensor-><control> = ctrl->val; break; return ret;
CtrlSet(t) ==
  /\ pc[t] = "ctrl_set"
  /\ brightness' = IF loc[t].id = V4L2_CID_BRIGHTNESS THEN loc[t].val
                   ELSE brightness
  /\ saturation' = IF loc[t].id = V4L2_CID_SATURATION THEN loc[t].val
                   ELSE saturation
  /\ contrast' = IF loc[t].id = V4L2_CID_CONTRAST THEN loc[t].val ELSE contrast
  /\ hue' = IF loc[t].id = V4L2_CID_HUE THEN loc[t].val ELSE hue
  /\ result' = [result EXCEPT ![t] = loc[t].ret]
  /\ pc' = [pc EXCEPT ![t] = "done"]
  /\ UNCHANGED <<locked, std_id, video_idx, fmt, current_input, mutex, envvars, calls,
                 bank, op, loc, bus, out, notified>>

\* The `return ret` of ADV7180_WRITE_REG after a failed write.
CtrlFail(t) ==
  /\ pc[t] = "ctrl_fail"
  /\ result' = [result EXCEPT ![t] = loc[t].ret]
  /\ pc' = [pc EXCEPT ![t] = "done"]
  /\ UNCHANGED <<sensorvars, mutex, envvars, calls, bank, op, loc, bus, out, notified>>

(* ------------------------------------------------------------------ *)
(* adv7180_s_routing                                                  *)
(* ------------------------------------------------------------------ *)
\* The insel column of adv7180_inputs_64_48[].
adv7180_inputs_64_48 == <<0, 1, 2, 3, 4, 5, 6, 7, 8, 9, 10>>

\* Fault: the selector is narrowed to the u8 of the table before the search.
adv7180_find_input_Narrowed(insel) ==
  \E i \in 1..Len(adv7180_inputs_64_48) : adv7180_inputs_64_48[i] = U8(insel)

\* adv7180_find_input(sensor, insel) != NULL; insel is a u32.
adv7180_find_input(insel) ==
  \E i \in 1..Len(adv7180_inputs_64_48) : adv7180_inputs_64_48[i] = insel

\* The selectors a caller passes: the first and the last entry of the table,
\* the first value past it and the first value past a byte.
RoutingInputs == {0, 10, 11, 256}

\* advinput = adv7180_find_input(sensor, input); if (!advinput) return -EINVAL;
RoutingEnter(t) ==
  /\ t = ApiThread
  /\ pc[t] = "idle"
  /\ calls < CallLimit
  /\ calls' = calls + 1
  /\ op' = [op EXCEPT ![t] = "adv7180_s_routing"]
  /\ \E input \in RoutingInputs :
       /\ loc' = [loc EXCEPT ![t] = [NoFrame EXCEPT !.input = input]]
       /\ IF adv7180_find_input(input)
          THEN /\ pc' = [pc EXCEPT ![t] = "rt_lock"]
               /\ UNCHANGED result
          ELSE /\ pc' = [pc EXCEPT ![t] = "done"]
               /\ result' = [result EXCEPT ![t] = 0 - EINVAL]
  /\ UNCHANGED <<sensorvars, mutex, envvars, bank, bus, out, notified>>

\* mutex_lock(&sensor->mutex);
RoutingMutexLock(t) ==
  /\ pc[t] = "rt_lock"
  /\ mutex = NoOwner
  /\ mutex' = t
  /\ pc' = [pc EXCEPT ![t] = "rt_wr"]
  /\ UNCHANGED <<sensorvars, envvars, calls, bank, op, loc, bus, out, result, notified>>

\* adv7180_write_reg(sensor, ADV7180_INPUT_CTL, advinput->insel); the return
\* value is not looked at.
RoutingWrite(t) ==
  /\ WriteReg(t, "rt_wr", ADV7180_INPUT_CTL, loc[t].input, "rt_set", "rt_set")
  /\ UNCHANGED <<sensorvars, mutex, envvars, calls, op, out, result, notified>>

\* sensor->current_input = input;
RoutingSet(t) ==
  /\ pc[t] = "rt_set"
  /\ current_input' = loc[t].input
  /\ pc' = [pc EXCEPT ![t] = "rt_unlock"]
  /\ UNCHANGED <<locked, std_id, video_idx, fmt, brightness, contrast,
                 saturation, hue, mutex, envvars, calls, bank, op, loc, bus, out,
                 result, notified>>

\* mutex_unlock(&sensor->mutex); return 0;
RoutingMutexUnlock(t) ==
  /\ pc[t] = "rt_unlock"
  /\ mutex' = NoOwner
  /\ result' = [result EXCEPT ![t] = 0]
  /\ pc' = [pc EXCEPT ![t] = "done"]
  /\ UNCHANGED <<sensorvars, envvars, calls, bank, op, loc, bus, out, notified>>

(* ------------------------------------------------------------------ *)
(* The caller takes the result; the thread is free for the next call  *)
(* ------------------------------------------------------------------ *)
Finish(t) ==
  /\ pc[t] = "done"
  /\ pc' = [pc EXCEPT ![t] = "idle"]
  /\ op' = [op EXCEPT ![t] = "none"]
  /\ loc' = [loc EXCEPT ![t] = NoFrame]
  /\ bus' = [bus EXCEPT ![t] = <<>>]
  /\ out' = [out EXCEPT ![t] = NoOut]
  /\ result' = [result EXCEPT ![t] = 0]
  /\ notified' = IF t = IrqThread THEN 0 ELSE notified
  /\ UNCHANGED <<sensorvars, mutex, envvars, calls, bank>>

UpdateLockStatus(t) ==
  \/ UlsReadStatus1(t) \/ UlsBankInterrupt(t) \/ UlsReadIntStatus1(t)
  \/ UlsReadIntStatus3(t) \/ UlsClear1(t) \/ UlsClear3(t)
  \/ UlsReadRawStatus3(t) \/ UlsBankNormal(t) \/ UlsCompute(t)

GetAutodetectStd(t) ==
  \/ AdEntry(t) \/ AdReadStatus1(t) \/ AdCompare(t) \/ AdSetIdx(t)
  \/ AdSetStd(t) \/ AdSetWidth(t) \/ AdSetHeight(t) \/ AdSetChanged(t)

Interrupt(t) ==
  \/ IrqEnter(t) \/ IrqMutexLock(t) \/ IrqAfterUpdateLock(t)
  \/ IrqAfterAutodetect(t) \/ IrqMutexUnlock(t) \/ IrqTest(t) \/ IrqNotify(t)

Querystd(t) ==
  \/ QuerystdEnter(t) \/ QuerystdMutexLock(t) \/ QuerystdAfterUpdateLock(t)
  \/ QuerystdAfterAutodetect(t) \/ QuerystdDeliver(t) \/ QuerystdMutexUnlock(t)

FormatQueries(t) ==
  \/ \E o \in MbusFmtOps : MbusFmtEnter(t, o)
  \/ MbusFmtCopy(t)
  \/ GCropEnter(t) \/ GCropCopy(t)
  \/ EnumFramesizesEnter(t) \/ EnumFramesizesWidth(t) \/ EnumFramesizesHeight(t)

\* The detector, the irq handler and the queries of the API thread.
Next ==
  \E t \in Threads :
    \/ UpdateLockStatus(t) \/ GetAutodetectStd(t)
    \/ Interrupt(t) \/ Querystd(t) \/ FormatQueries(t)
    \/ Finish(t)

Spec == Init /\ [][Next]_vars

Controls(t) ==
  \/ CtrlEnter(t) \/ CtrlWrite(t) \/ CtrlWriteCr(t) \/ CtrlSet(t) \/ CtrlFail(t)

Routing(t) ==
  \/ RoutingEnter(t) \/ RoutingMutexLock(t) \/ RoutingWrite(t)
  \/ RoutingSet(t) \/ RoutingMutexUnlock(t)

\* The control surface beside the irq handler: a device with an interrupt
\* line, the handler on one thread, control and routing calls on the other.
CtrlInit == Init /\ has_irq /\ signal = "steady"

CtrlNext ==
  \E t \in Threads :
    \/ UpdateLockStatus(t) \/ GetAutodetectStd(t) \/ Interrupt(t)
    \/ Controls(t) \/ Routing(t)
    \/ Finish(t)

CtrlSpec == CtrlInit /\ [][CtrlNext]_vars

\* The control surface of a device without an interrupt line: one thread,
\* control and routing calls one after the other.
SeqInit == Init /\ ~has_irq

SeqNext ==
  \/ Controls(ApiThread) \/ Routing(ApiThread) \/ Finish(ApiThread)

SeqSpec == SeqInit /\ [][SeqNext]_vars

(* ------------------------------------------------------------------ *)
(* adv7180_probe from the power-up on, and what it calls              *)
(* ------------------------------------------------------------------ *)
\* The ADV7180_WRITE_REG lines of adv7180_hard_reset, <<register, value>>, in
\* the order of the source.
HardResetProgram ==
  <<
    <<0, 0>>, <<1, 200>>, <<2, 4>>, <<3, 0>>, <<4, 69>>, <<5, 0>>,
    <<6, 2>>, <<7, 127>>, <<8, 128>>, <<10, 0>>, <<11, 0>>, <<12, 54>>,
    <<13, 124>>, <<14, 0>>, <<15, 0>>, <<19, 0>>, <<20, 18>>, <<21, 0>>,
    <<22, 0>>, <<23, 1>>, <<24, 147>>, <<241, 25>>, <<26, 0>>, <<27, 0>>,
    <<28, 0>>, <<29, 64>>, <<30, 0>>, <<31, 0>>, <<32, 0>>, <<33, 0>>,
    <<34, 0>>, <<35, 192>>, <<36, 0>>, <<37, 0>>, <<38, 0>>, <<39, 88>>,
    <<40, 0>>, <<41, 0>>, <<42, 0>>, <<43, 225>>, <<44, 174>>, <<45, 244>>,
    <<46, 0>>, <<47, 240>>, <<48, 0>>, <<49, 18>>, <<50, 65>>, <<51, 132>>,
    <<52, 0>>, <<53, 2>>, <<54, 0>>, <<55, 1>>, <<56, 128>>, <<57, 192>>,
    <<58, 16>>, <<59, 5>>, <<60, 88>>, <<61, 178>>, <<62, 100>>, <<63, 228>>,
    <<64, 144>>, <<65, 1>>, <<66, 126>>, <<67, 164>>, <<68, 255>>, <<69, 182>>,
    <<70, 18>>, <<72, 0>>, <<73, 0>>, <<74, 0>>, <<75, 0>>, <<76, 0>>,
    <<77, 239>>, <<78, 8>>, <<79, 8>>, <<80, 8>>, <<81, 164>>, <<82, 11>>,
    <<83, 78>>, <<84, 128>>, <<85, 0>>, <<86, 16>>, <<87, 0>>, <<88, 0>>,
    <<89, 0>>, <<90, 0>>, <<91, 0>>, <<92, 0>>, <<93, 0>>, <<94, 0>>,
    <<95, 0>>, <<96, 0>>, <<97, 0>>, <<98, 32>>, <<99, 0>>, <<100, 0>>,
    <<101, 0>>, <<102, 0>>, <<103, 3>>, <<104, 1>>, <<105, 0>>, <<106, 0>>,
    <<107, 192>>, <<108, 0>>, <<109, 0>>, <<110, 0>>, <<111, 0>>, <<112, 0>>,
    <<113, 0>>, <<114, 0>>, <<115, 16>>, <<116, 4>>, <<117, 1>>, <<118, 0>>,
    <<119, 63>>, <<120, 255>>, <<121, 255>>, <<122, 255>>, <<123, 30>>, <<124, 192>>,
    <<125, 0>>, <<126, 0>>, <<127, 0>>, <<128, 0>>, <<129, 192>>, <<130, 4>>,
    <<131, 0>>, <<132, 12>>, <<133, 2>>, <<134, 3>>, <<135, 99>>, <<136, 90>>,
    <<137, 8>>, <<138, 16>>, <<139, 0>>, <<140, 64>>, <<141, 0>>, <<142, 64>>,
    <<143, 0>>, <<144, 0>>, <<145, 80>>, <<146, 0>>, <<147, 0>>, <<148, 0>>,
    <<149, 0>>, <<150, 0>>, <<151, 240>>, <<152, 0>>, <<153, 0>>, <<154, 0>>,
    <<155, 0>>, <<156, 0>>, <<157, 0>>, <<158, 0>>, <<159, 0>>, <<160, 0>>,
    <<161, 0>>, <<162, 0>>, <<163, 0>>, <<164, 0>>, <<165, 0>>, <<166, 0>>,
    <<167, 0>>, <<168, 0>>, <<169, 0>>, <<170, 0>>, <<171, 0>>, <<172, 0>>,
    <<173, 0>>, <<174, 96>>, <<175, 0>>, <<176, 0>>, <<177, 96>>, <<178, 28>>,
    <<179, 84>>, <<180, 0>>, <<181, 0>>, <<182, 0>>, <<183, 19>>, <<184, 3>>,
    <<185, 51>>, <<191, 2>>, <<192, 0>>, <<193, 0>>, <<194, 0>>, <<195, 0>>,
    <<196, 0>>, <<197, 129>>, <<198, 0>>, <<199, 0>>, <<200, 0>>, <<201, 4>>,
    <<204, 105>>, <<205, 0>>, <<206, 1>>, <<207, 180>>, <<208, 0>>, <<209, 16>>,
    <<210, 255>>, <<211, 255>>, <<212, 127>>, <<213, 127>>, <<214, 62>>, <<215, 8>>,
    <<216, 60>>, <<217, 8>>, <<218, 60>>, <<219, 155>>, <<220, 172>>, <<221, 76>>,
    <<222, 0>>, <<223, 0>>, <<224, 20>>, <<225, 128>>, <<226, 128>>, <<227, 128>>,
    <<228, 128>>, <<229, 37>>, <<230, 68>>, <<231, 99>>, <<232, 101>>, <<233, 20>>,
    <<234, 99>>, <<235, 85>>, <<236, 85>>, <<238, 0>>, <<239, 74>>, <<240, 68>>,
    <<241, 12>>, <<242, 50>>, <<243, 0>>, <<244, 63>>, <<245, 224>>, <<246, 105>>,
    <<247, 16>>, <<248, 0>>, <<249, 3>>, <<250, 250>>, <<251, 64>>
  >>

\* The byte the IDENT register returns; the driver only stores and prints it.
IdentValues == {28}
\* What request_threaded_irq returns on failure; -EBUSY stands for it.
IrqRequestErrors == {0 - 16}
\* What v4l2_ctrl_handler_init / v4l2_ctrl_new_std leave in ctrl_hdl.error on
\* failure; -ENOMEM stands for it.
CtrlHdlErrors == {0 - 12}

\* default_value of the entry of adv7180_qctrl[].
CtrlDefault(id) ==
  CASE id = V4L2_CID_BRIGHTNESS -> 0
    [] id = V4L2_CID_SATURATION -> 128
    [] id = V4L2_CID_CONTRAST   -> 128
    [] id = V4L2_CID_HUE        -> 0

\* The device at line 1244 of adv7180_probe: the struct zeroed by
\* devm_kzalloc, the default standard and its frame size stored, the mutex
\* initialised; nothing powered, no handler registered.  The log of
\* adv7180_probe keeps the accesses of the functions it calls.
AttachInit ==
  /\ \E norm \in {ADV7180_PAL, ADV7180_NTSC} :
       /\ video_idx = norm
       /\ std_id = video_fmts[norm].v4l2_id
       /\ fmt = [width  |-> video_fmts[norm].raw.width,
                 height |-> video_fmts[norm].raw.height,
                 code   |-> "MEDIA_BUS_FMT_UYVY8_2X8",
                 field  |-> "V4L2_FIELD_SEQ_BT"]
  /\ locked = FALSE
  /\ current_input = 0
  /\ brightness = 0 /\ contrast = 0 /\ saturation = 0 /\ hue = 0
  /\ mutex = NoOwner
  /\ has_irq \in BOOLEAN
  /\ signal \in {"switching", "steady"}
  /\ bank = BANK_NORMAL
  /\ pc = [t \in Threads |-> IF t = ApiThread THEN "probe_regulators"
                             ELSE "idle"]
  /\ op = [t \in Threads |-> IF t = ApiThread THEN "adv7180_probe" ELSE "none"]
  /\ loc = [t \in Threads |-> NoFrame]
  /\ bus = [t \in Threads |-> <<>>]
  /\ out = [t \in Threads |-> NoOut]
  /\ result = [t \in Threads |-> 0]
  /\ notified = 0
  /\ calls = 0
  /\ on = FALSE /\ supplies = FALSE /\ irq_requested = FALSE

\* adv7180_regulator_enable(sensor); its return value is dropped.
ProbeRegulatorEnable(t) ==
  /\ pc[t] = "probe_regulators"
  /\ supplies' = TRUE
  /\ pc' = [pc EXCEPT ![t] = "pwr_on_wr"]
  /\ UNCHANGED <<sensorvars, mutex, has_irq, signal, on, irq_requested, calls,
                 bank, op, loc, bus, out, result, notified>>

\* adv7180_power(sensor, true) with sensor->on false: the write of 0 to
\* ADV7180_PWR_MNG; adv7180_write_reg's return value is dropped.
PowerOnWrite(t) ==
  /\ ~on
  /\ WriteReg(t, "pwr_on_wr", ADV7180_PWR_MNG, 0, "pwr_on_set", "pwr_on_set")
  /\ UNCHANGED <<sensorvars, mutex, envvars, calls, op, out, result, notified>>

\* sensor->on = enable;
PowerOnSet(t) ==
  /\ pc[t] = "pwr_on_set"
  /\ on' = TRUE
  /\ pc' = [pc EXCEPT ![t] = "hr_reset"]
  /\ UNCHANGED <<sensorvars, mutex, has_irq, signal, supplies, irq_requested,
                 calls, bank, op, loc, bus, out, result, notified>>

\* adv7180_hard_reset: the reset bit; the return value is dropped here too.
HardResetAssert(t) ==
  /\ WriteReg(t, "hr_reset", ADV7180_PWR_MNG, 128, "hr_prog", "hr_prog")
  /\ UNCHANGED <<sensorvars, mutex, envvars, calls, op, out, result, notified>>

\* The writes of the program made so far: the log holds the power-on write
\* and the reset write before them.
HrDone(t) == Len(bus[t]) - 2

\* The next ADV7180_WRITE_REG of the program; after the last one, return 0.
HardResetWrite(t) ==
  /\ pc[t] = "hr_prog"
  /\ HrDone(t) < Len(HardResetProgram)
  /\ WriteReg(t, "hr_prog",
              HardResetProgram[HrDone(t) + 1][1],
              HardResetProgram[HrDone(t) + 1][2],
              IF HrDone(t) + 1 = Len(HardResetProgram) THEN "hr_ret"
              ELSE "hr_prog",
              "hr_ret")
  /\ UNCHANGED <<sensorvars, mutex, envvars, calls, op, out, result, notified>>

\* Fault: the result of adv7180_hard_reset is not tested.
ProbeAfterHardReset_NotTested(t) ==
  /\ pc[t] = "hr_ret"
  /\ pc' = [pc EXCEPT ![t] = "probe_rd_ident"]
  /\ UNCHANGED <<sensorvars, mutex, envvars, calls, bank, op, loc, bus, out,
                 result, notified>>

\* ret = adv7180_hard_reset(sensor); if (ret) goto cleanup;
ProbeAfterHardReset(t) ==
  /\ pc[t] = "hr_ret"
  /\ pc' = [pc EXCEPT ![t] = IF loc[t].ret # 0 THEN "probe_cleanup"
                             ELSE "probe_rd_ident"]
  /\ UNCHANGED <<sensorvars, mutex, envvars, calls, bank, op, loc, bus, out,
                 result, notified>>

\* ret = adv7180_read_reg(sensor, ADV7180_IDENT, &rev_id); on success
\* v4l2_i2c_subdev_init and the call of adv7180_update_lock_status follow.
ProbeReadIdent(t) ==
  /\ ReadReg(t, "probe_rd_ident", ADV7180_IDENT, "rev_id", IdentValues,
             "uls_rd_stat1", "probe_ident_fail")
  /\ UNCHANGED <<sensorvars, mutex, envvars, calls, op, out, result, notified>>

\* if (ret < 0) { ret = -ENODEV; goto cleanup; }
ProbeIdentFail(t) ==
  /\ pc[t] = "probe_ident_fail"
  /\ loc' = [loc EXCEPT ![t].ret = 0 - ENODEV]
  /\ pc' = [pc EXCEPT ![t] = "probe_cleanup"]
  /\ UNCHANGED <<sensorvars, mutex, envvars, calls, bank, op, bus, out, result,
                 notified>>

\* ret = adv7180_update_lock_status(sensor, &lsc); if (ret < 0) goto cleanup;
ProbeAfterUpdateLock(t) ==
  /\ pc[t] = "uls_ret" /\ op[t] = "adv7180_probe"
  /\ loc' = [loc EXCEPT ![t] = [DropUlsLocals(@) EXCEPT !.uls_ret = loc[t].ret]]
  /\ pc' = [pc EXCEPT ![t] = IF loc[t].ret < 0 THEN "probe_cleanup"
                             ELSE "ad_entry"]
  /\ UNCHANGED <<sensorvars, mutex, envvars, calls, bank, op, bus, out, result,
                 notified>>

\* ret = adv7180_get_autodetect_std(sensor, &std_change);
\* if (ret < 0) goto cleanup; if (sensor->i2c_client->irq) ...
ProbeAfterAutodetect(t) ==
  /\ pc[t] = "ad_ret" /\ op[t] = "adv7180_probe"
  /\ loc' = [loc EXCEPT ![t] = [DropAdLocals(@) EXCEPT !.ad_ret = loc[t].ret]]
  /\ pc' = [pc EXCEPT ![t] = IF loc[t].ret < 0 THEN "probe_cleanup"
                             ELSE IF has_irq THEN "probe_req_irq"
                             ELSE "probe_ctrls"]
  /\ UNCHANGED <<sensorvars, mutex, envvars, calls, bank, op, bus, out, result,
                 notified>>

\* ret = request_threaded_irq(...); if (ret < 0) goto cleanup;
ProbeRequestIrq(t) ==
  /\ pc[t] = "probe_req_irq"
  /\ \/ /\ irq_requested' = TRUE
        /\ loc' = [loc EXCEPT ![t].ret = 0]
        /\ pc' = [pc EXCEPT ![t] = "ei_bank_int"]
     \/ \E e \in IrqRequestErrors :
          /\ irq_requested' = irq_requested
          /\ loc' = [loc EXCEPT ![t].ret = e]
          /\ pc' = [pc EXCEPT ![t] = "probe_cleanup"]
  /\ UNCHANGED <<sensorvars, mutex, has_irq, signal, on, supplies, calls, bank,
                 op, bus, out, result, notified>>

\* adv7180_enable_interrupts: five ADV7180_WRITE_REG.  The masks are the OR
\* of two distinct bits each, which is their sum.
EiBankInterrupt(t) ==
  /\ WriteReg(t, "ei_bank_int", ADV7180_BANK_SEL, BANK_INTERRUPT,
              "ei_config", "ei_ret")
  /\ UNCHANGED <<sensorvars, mutex, envvars, calls, op, out, result, notified>>

EiConfig(t) ==
  /\ WriteReg(t, "ei_config", ADV7180_INT_CONFIG_1, 209, "ei_mask1", "ei_ret")
  /\ UNCHANGED <<sensorvars, mutex, envvars, calls, op, out, result, notified>>

EiMask1(t) ==
  /\ WriteReg(t, "ei_mask1", ADV7180_INT_MASK_1,
              ADV7180_INT_SD_UNLOCK + ADV7180_INT_SD_LOCK,
              "ei_mask3", "ei_ret")
  /\ UNCHANGED <<sensorvars, mutex, envvars, calls, op, out, result, notified>>

\* Fault: SD_V_LOCK_CHNG is left masked.
EiMask3_AdChngOnly(t) ==
  /\ WriteReg(t, "ei_mask3", ADV7180_INT_MASK_3, ADV7180_INT_SD_AD_CHNG,
              "ei_bank_norm", "ei_ret")
  /\ UNCHANGED <<sensorvars, mutex, envvars, calls, op, out, result, notified>>

EiMask3(t) ==
  /\ WriteReg(t, "ei_mask3", ADV7180_INT_MASK_3,
              ADV7180_INT_SD_AD_CHNG + ADV7180_INT_SD_V_LOCK_CHNG,
              "ei_bank_norm", "ei_ret")
  /\ UNCHANGED <<sensorvars, mutex, envvars, calls, op, out, result, notified>>

EiBankNormal(t) ==
  /\ WriteReg(t, "ei_bank_norm", ADV7180_BANK_SEL, BANK_NORMAL,
              "ei_ret", "ei_ret")
  /\ UNCHANGED <<sensorvars, mutex, envvars, calls, op, out, result, notified>>

\* adv7180_enable_interrupts(sensor); its return value is dropped.
ProbeAfterEnableInterrupts(t) ==
  /\ pc[t] = "ei_ret"
  /\ pc' = [pc EXCEPT ![t] = "probe_ctrls"]
  /\ UNCHANGED <<sensorvars, mutex, envvars, calls, bank, op, loc, bus, out,
                 result, notified>>

\* return adv7180_init_controls(sensor): the error of the control handler,
\* with no cleanup; or 0 after v4l2_ctrl_handler_setup, which hands every
\* control's default to adv7180_s_ctrl (its register writes are framework
\* calls and are not followed here).
ProbeInitControls(t) ==
  /\ pc[t] = "probe_ctrls"
  /\ \/ \E e \in CtrlHdlErrors :
          /\ result' = [result EXCEPT ![t] = e]
          /\ UNCHANGED <<brightness, contrast, saturation, hue>>
     \/ /\ result' = [result EXCEPT ![t] = 0]
        /\ brightness' = CtrlDefault(V4L2_CID_BRIGHTNESS)
        /\ contrast' = CtrlDefault(V4L2_CID_CONTRAST)
        /\ saturation' = CtrlDefault(V4L2_CID_SATURATION)
        /\ hue' = CtrlDefault(V4L2_CID_HUE)
  /\ pc' = [pc EXCEPT ![t] = "done"]
  /\ UNCHANGED <<locked, std_id, video_idx, fmt, current_input, mutex, envvars,
                 calls, bank, op, loc, bus, out, notified>>

\* cleanup: adv7180_regulator_disable(sensor); return ret;
ProbeCleanup(t) ==
  /\ pc[t] = "probe_cleanup"
  /\ supplies' = FALSE
  /\ result' = [result EXCEPT ![t] = loc[t].ret]
  /\ pc' = [pc EXCEPT ![t] = "done"]
  /\ UNCHANGED <<sensorvars, mutex, has_irq, signal, on, irq_requested, calls,
                 bank, op, loc, bus, out, notified>>

\* One attach: adv7180_probe runs alone, up to its return.
AttachNext ==
  \E t \in {ApiThread} :
    \/ ProbeRegulatorEnable(t) \/ PowerOnWrite(t) \/ PowerOnSet(t)
    \/ HardResetAssert(t) \/ HardResetWrite(t)
    \/ ProbeAfterHardReset(t) \/ ProbeReadIdent(t) \/ ProbeIdentFail(t)
    \/ UpdateLockStatus(t) \/ ProbeAfterUpdateLock(t)
    \/ GetAutodetectStd(t) \/ ProbeAfterAutodetect(t)
    \/ ProbeRequestIrq(t)
    \/ EiBankInterrupt(t) \/ EiConfig(t) \/ EiMask1(t) \/ EiMask3(t)
    \/ EiBankNormal(t) \/ ProbeAfterEnableInterrupts(t)
    \/ ProbeInitControls(t) \/ ProbeCleanup(t)

AttachSpec == AttachInit /\ [][AttachNext]_vars

\* The attach of a device with an irq, and the handler from the moment
\* request_threaded_irq has registered it.
AttachIrqInit ==
  AttachInit /\ has_irq /\ signal = "steady" /\ video_idx = ADV7180_PAL

AttachIrqNext ==
  \/ AttachNext
  \/ \E t \in {IrqThread} :
       \/ UpdateLockStatus(t) \/ GetAutodetectStd(t) \/ Interrupt(t)
       \/ Finish(t)

AttachIrqSpec == AttachIrqInit /\ [][AttachIrqNext]_vars

(* ------------------------------------------------------------------ *)
(* Properties                                                         *)
(* ------------------------------------------------------------------ *)
\* Bit b of a register value, read off the value itself.
Bit(v, b) == (v \div (2 ^ b)) % 2 = 1
\* Bits 6:4 of STATUS_1.
CodeOf(stat1) == (stat1 \div 16) % 8

AdPcs == {"ad_entry", "ad_rd_stat1", "ad_cmp", "ad_set_idx", "ad_set_std",
          "ad_set_width", "ad_set_height", "ad_set_chg", "ad_ret"}
AdUpdatePcs == {"ad_set_idx", "ad_set_std", "ad_set_width", "ad_set_height"}

\* The index the table of autodetect codes gives: 4, 5, 6 are 625-line
\* standards, 0, 1, 2, 3, 7 are 525-line ones.
TableIdx(code) == IF code \in {4, 5, 6} THEN ADV7180_PAL ELSE ADV7180_NTSC

\* C1: when adv7180_get_autodetect_std returns after a successful read of
\* STATUS_1 with the decoder locked, video_idx is the table index of the code
\* read and the raw frame size is that entry's: 720x525 for NTSC, 720x625 for
\* PAL, whatever standard was stored before.
C1_AutodetectFollowsTable ==
  \A t \in Threads :
    (pc[t] = "ad_ret" /\ locked /\ loc[t].ret = 0 /\ bus[t] # <<>>)
      => /\ bus[t][1].reg = ADV7180_STATUS_1
         /\ video_idx = TableIdx(CodeOf(bus[t][1].val))
         /\ fmt.width = 720
         /\ fmt.height = IF TableIdx(CodeOf(bus[t][1].val)) = ADV7180_PAL
                         THEN 625 ELSE 525

\* C2: a step of adv7180_get_autodetect_std taken with locked false goes
\* straight to its return with no register access, status_change false and
\* return value 0, and leaves std_id, video_idx and the frame size alone.
C2_UnlockedIsNoOp ==
  [][\A t \in Threads :
       (pc[t] = "ad_entry" /\ ~locked /\ pc'[t] # pc[t])
         => /\ pc'[t] = "ad_ret"
            /\ bus'[t] = <<>>
            /\ loc'[t].std_change = FALSE
            /\ loc'[t].ret = 0
            /\ std_id' = std_id /\ video_idx' = video_idx /\ fmt' = fmt]_vars

\* The call has returned unlocked while a standard other than the two
\* defaults is stored.
C2_Witness ==
  \E t \in Threads :
    /\ pc[t] = "ad_ret" /\ ~locked /\ bus[t] = <<>>
    /\ std_id = V4L2_STD_SECAM

\* C3: every step that changes std_id, video_idx or the frame size is taken
\* with locked true by the thread that holds the mutex, inside the update of
\* adv7180_get_autodetect_std, after a code whose standard differs from the
\* std_id the comparison read; std_id only ever becomes that standard.
C3_StandardChangesOnlyLockedAndDifferent ==
  [][(std_id' # std_id \/ video_idx' # video_idx \/ fmt' # fmt)
       => /\ locked
          /\ \E t \in Threads :
               /\ mutex = t
               /\ pc[t] \in AdUpdatePcs
               /\ AdStd(t) # loc[t].prev_std
               /\ std_id \in {loc[t].prev_std, AdStd(t)}
               /\ std_id' \in {std_id, AdStd(t)}]_vars

\* The irq handler is in the middle of a change of standard while the API
\* thread is in the middle of a call.
C3_Witness ==
  /\ pc[IrqThread] = "ad_set_height"
  /\ fmt.height # video_fmts[video_idx].raw.height
  /\ pc[ApiThread] = "fmt_copy"

\* C4: when adv7180_update_lock_status returns 0, locked is true exactly when
\* bit 0 and bit 2 of the STATUS_1 value and bit 1 of the INT_RAW_STATUS_3
\* value it read are all set.
C4_LockedIsAndOfThreeBits ==
  \A t \in Threads :
    (pc[t] = "uls_ret" /\ loc[t].ret = 0)
      => /\ Len(bus[t]) = 8
         /\ bus[t][1].reg = ADV7180_STATUS_1
         /\ bus[t][7].reg = ADV7180_INT_RAW_STATUS_3
         /\ locked = (/\ Bit(bus[t][1].val, 0)
                      /\ Bit(bus[t][1].val, 2)
                      /\ Bit(bus[t][7].val, 1))

\* Locked although LOST_LOCK, every other bit of INT_RAW_STATUS_3 and both
\* latched lock interrupts are set.
C4_Witness ==
  \E t \in Threads :
    /\ pc[t] = "uls_ret" /\ loc[t].ret = 0 /\ locked
    /\ Bit(bus[t][1].val, 1)
    /\ bus[t][3].val = 3
    /\ CodeOf(bus[t][1].val) = 7

\* C5: a run of the handler notifies at most once; when both detector calls
\* returned 0 it has notified once if either reported a change and not at all
\* if neither did.
C5_OneCoalescedNotification ==
  /\ notified \in {0, 1}
  /\ (/\ pc[IrqThread] = "done"
      /\ loc[IrqThread].uls_ret = 0 /\ loc[IrqThread].ad_ret = 0)
       => (notified = 1 <=> (\/ loc[IrqThread].lock_status_change
                             \/ loc[IrqThread].std_change))

\* Both the lock status and the standard changed in one run.
C5_Witness ==
  /\ pc[IrqThread] = "done" /\ notified = 1
  /\ loc[IrqThread].uls_ret = 0 /\ loc[IrqThread].ad_ret = 0
  /\ loc[IrqThread].lock_status_change /\ loc[IrqThread].std_change

\* C6: from the test of the two flags to the return, and so at the call of
\* v4l2_subdev_notify, the handler does not hold the mutex.
C6_NotifyOutsideMutex ==
  /\ pc[IrqThread] \in {"irq_test", "irq_notify", "done"} => mutex # IrqThread
  /\ pc[IrqThread] \in {"uls_rd_stat1", "uls_ret", "ad_entry", "ad_ret",
                        "irq_unlock"} => mutex = IrqThread

\* The handler is about to notify while the API thread already holds the
\* mutex the handler released.
C6_Witness ==
  /\ pc[IrqThread] = "irq_notify"
  /\ mutex = ApiThread

\* The register accesses of control and routing calls are those the API
\* thread logs while it is in adv7180_s_ctrl or adv7180_s_routing.
ControlOps == {"adv7180_s_ctrl", "adv7180_s_routing"}

\* C7: no register write of a control setter or of the input routing is made
\* while the bank-select register 0x0E holds 0x20, that is between the
\* handler's switch to the interrupt bank and its switch back.
C7_ControlWritesInNormalBank ==
  op[ApiThread] \in ControlOps
    => \A i \in 1..Len(bus[ApiThread]) :
         bus[ApiThread][i].kind = "w"
           => bus[ApiThread][i].bank # BANK_INTERRUPT

\* The tuples of the standard table a query can return.
RawSizes == {<<video_fmts[i].raw.width, video_fmts[i].raw.height>> :
               i \in DOMAIN video_fmts}
CropRects == {<<video_fmts[i].crop.width, video_fmts[i].crop.height,
                video_fmts[i].crop.top, video_fmts[i].crop.left>> :
                i \in DOMAIN video_fmts}
CropSizes == {<<video_fmts[i].crop.width, video_fmts[i].crop.height>> :
                i \in DOMAIN video_fmts}

\* C8: what a format or crop query has returned is the tuple of one entry of
\* the standard table: the raw width and height of one entry for the three
\* mbus format calls, the crop rectangle of one entry for g_crop, the crop
\* width and height of one entry for enum_framesizes.
C8_QueryReturnsOneEntry ==
  LET t == ApiThread IN
    (pc[t] = "done" /\ result[t] = 0)
      => /\ op[t] \in MbusFmtOps
              => <<out[t].width, out[t].height>> \in RawSizes
         /\ op[t] = "adv7180_g_crop"
              => <<out[t].width, out[t].height, out[t].top, out[t].left>>
                   \in CropRects
         /\ op[t] = "adv7180_enum_framesizes"
              => <<out[t].width, out[t].height>> \in CropSizes

\* An mbus format call has returned while the handler is in the middle of a
\* change of standard: video_idx is already the new index, the height it
\* returned is still the old one.
C8_Witness ==
  /\ pc[ApiThread] = "done" /\ op[ApiThread] \in MbusFmtOps
  /\ pc[IrqThread] = "ad_set_height"
  /\ out[ApiThread].height = fmt.height
  /\ fmt.height # video_fmts[video_idx].raw.height

\* A step of the handler.
IrqStep ==
  \/ UpdateLockStatus(IrqThread) \/ GetAutodetectStd(IrqThread)
  \/ Interrupt(IrqThread)

\* C9: whatever register accesses failed, a handler that has returned has
\* released the mutex and returned IRQ_HANDLED; and from its mutex_lock to its
\* return the handler always has a next step, so it is never stuck holding
\* the mutex.
C9_HandlerReleasesAndReturnsHandled ==
  /\ pc[IrqThread] = "done"
       => mutex # IrqThread /\ result[IrqThread] = IRQ_HANDLED
  /\ (op[IrqThread] = "adv7180_interrupt"
        /\ pc[IrqThread] \notin {"irq_lock", "done"})
       => ENABLED IrqStep
  /\ mutex = IrqThread => op[IrqThread] = "adv7180_interrupt"

\* The handler has returned after both detector calls failed, and the API
\* thread has taken the mutex since.
C9_Witness ==
  /\ pc[IrqThread] = "done"
  /\ loc[IrqThread].uls_ret # 0 /\ loc[IrqThread].ad_ret # 0
  /\ mutex = ApiThread

\* C10: without an interrupt line, a register access of adv7180_querystd that
\* fails ends the detector call with its error; after a failed
\* adv7180_update_lock_status the call never enters
\* adv7180_get_autodetect_std; a call that has returned has released the
\* mutex, and if either detector call failed it has returned that error and
\* stored no standard, else it has returned 0 and stored std_id.
C10_QuerystdReturnsTheError ==
  LET t == ApiThread IN
    (op[t] = "adv7180_querystd" /\ ~has_irq)
      => /\ (pc[t] \in {"uls_ret", "ad_ret"} /\ bus[t] # <<>>)
              => /\ loc[t].ret # 0 <=> ~bus[t][Len(bus[t])].ok
                 /\ loc[t].ret # 0 => loc[t].ret \in I2cErrors
         /\ pc[t] \in AdPcs => loc[t].uls_ret = 0
         /\ pc[t] = "done"
              => /\ mutex # t
                 /\ IF loc[t].uls_ret # 0
                    THEN result[t] = loc[t].uls_ret /\ out[t].std = "none"
                    ELSE IF loc[t].ad_ret # 0
                    THEN result[t] = loc[t].ad_ret /\ out[t].std = "none"
                    ELSE result[t] = 0 /\ out[t].std = std_id

\* The query has returned the error of a failed read of
\* adv7180_get_autodetect_std, after adv7180_update_lock_status succeeded.
C10_Witness ==
  /\ op[ApiThread] = "adv7180_querystd" /\ ~has_irq
  /\ pc[ApiThread] = "done"
  /\ loc[ApiThread].uls_ret = 0 /\ loc[ApiThread].ad_ret # 0
  /\ result[ApiThread] = loc[ApiThread].ad_ret

\* The writes to the bank-select register in a function's access log.
BankSelWrites(b) ==
  {i \in 1..Len(b) : b[i].kind = "w" /\ b[i].reg = ADV7180_BANK_SEL}

\* C11: when adv7180_update_lock_status returns an error from an access made
\* after its write of 0x20 to 0x0E, the last access it made is a write of 0x00
\* to 0x0E; and when it returns with every write to 0x0E it made having
\* succeeded, register 0x0E holds 0x00.
C11_BankRestoredAfterError ==
  \A t \in Threads :
    pc[t] = "uls_ret"
      => LET b == bus[t]
             n == Len(bus[t])
         IN /\ (loc[t].ret # 0
                  /\ \E i \in BankSelWrites(b) :
                       i < n /\ b[i].val = BANK_INTERRUPT /\ b[i].ok)
                 => /\ n \in BankSelWrites(b)
                    /\ b[n].val = BANK_NORMAL
            /\ (\A i \in BankSelWrites(b) : b[i].ok) => bank = BANK_NORMAL

\* The positions of adv7180_update_lock_status at which it accesses a register.
UlsAccessPcs ==
  {"uls_rd_stat1", "uls_wr_bank_int", "uls_rd_int1", "uls_rd_int3",
   "uls_wr_clr1", "uls_wr_clr3", "uls_rd_raw3", "uls_wr_bank_norm"}

\* The fields of struct adv7180_dev the detector and the routing call keep.
DecoderState == <<locked, std_id, video_idx, fmt, current_input>>

\* C12: a register access of adv7180_update_lock_status that fails makes the
\* call return that error, without the status_change output stored; and no
\* step taken while a call is at one of its register accesses changes locked,
\* std_id, video_idx, the frame format or current_input, so that a call which
\* returns an error has left them as they were.
C12_FailedRefreshChangesNothing ==
  [][\A t \in Threads :
       pc[t] \in UlsAccessPcs
         => /\ DecoderState' = DecoderState
            /\ pc'[t] # pc[t]
                 => IF bus'[t][Len(bus'[t])].ok
                    THEN pc'[t] # "uls_ret"
                    ELSE /\ pc'[t] = "uls_ret"
                         /\ loc'[t].ret \in I2cErrors
                         /\ ~loc'[t].lsc_stored]_vars

\* The call returns the error of its last access, the write of 0x00 to 0x0E,
\* while sensor->locked is still set and the values it read say "not locked".
C12_Witness ==
  \E t \in Threads :
    /\ pc[t] = "uls_ret" /\ loc[t].ret \in I2cErrors
    /\ Len(bus[t]) = 8
    /\ locked /\ ~LockedValue(loc[t].stat1, loc[t].int_raw_stat3)

\* C13: adv7180_s_routing called with a selector that is not one of the insel
\* values 0x00..0x0a of the table returns -EINVAL at once: it has made no
\* register access, has not touched sensor->mutex and has left current_input
\* and the chip as they were.
C13_UnknownSelectorRejected ==
  [][LET t == ApiThread IN
       (pc[t] = "idle" /\ op'[t] = "adv7180_s_routing"
          /\ loc'[t].input \notin 0..10)
         => /\ pc'[t] = "done" /\ result'[t] = 0 - EINVAL
            /\ bus'[t] = <<>>
            /\ mutex' = mutex
            /\ current_input' = current_input
            /\ bank' = bank]_vars

\* Selector 256 has been rejected while the handler holds the mutex, after an
\* earlier call selected input 10.
C13_Witness ==
  /\ pc[ApiThread] = "done" /\ op[ApiThread] = "adv7180_s_routing"
  /\ loc[ApiThread].input = 256
  /\ result[ApiThread] = 0 - EINVAL
  /\ mutex = IrqThread
  /\ current_input = 10

\* C14: a call of adv7180_s_routing whose write to ADV7180_INPUT_CTL failed
\* leaves current_input as it was and returns an error, so that current_input
\* is always the selector of the last call whose write succeeded.
C14_InputFollowsSuccessfulWrite ==
  [][LET t == ApiThread IN
       (op[t] = "adv7180_s_routing" /\ bus[t] # <<>> /\ ~bus[t][1].ok)
         => /\ current_input' = current_input
            /\ pc'[t] = "done" => result'[t] # 0]_vars

\* The control values mirrored in struct adv7180_dev.
Mirrors == <<brightness, contrast, saturation, hue>>

\* C15: a mirrored control value changes only in a call of adv7180_s_ctrl all
\* of whose register writes (two for saturation, one for the others) have
\* succeeded; a call one of whose writes failed changes no mirrored value and
\* returns the error of that write.
C15_MirrorOnlyAfterAllWrites ==
  [][LET t == ApiThread
         b == bus[ApiThread]
     IN /\ Mirrors' # Mirrors
             => /\ op[t] = "adv7180_s_ctrl"
                /\ Len(b) = IF loc[t].id = V4L2_CID_SATURATION THEN 2 ELSE 1
                /\ \A i \in 1..Len(b) : b[i].ok
        /\ (op[t] = "adv7180_s_ctrl" /\ b # <<>> /\ ~b[Len(b)].ok)
             => /\ Mirrors' = Mirrors
                /\ pc'[t] = "done"
                     => result'[t] = loc[t].ret /\ result'[t] \in I2cErrors]_vars

\* A saturation call has returned the error of its second write, after the
\* first one succeeded; the mirrored saturation is still the default.
C15_Witness ==
  LET t == ApiThread IN
    /\ pc[t] = "done" /\ op[t] = "adv7180_s_ctrl"
    /\ loc[t].id = V4L2_CID_SATURATION /\ loc[t].val = 255
    /\ Len(bus[t]) = 2 /\ bus[t][1].ok /\ ~bus[t][2].ok
    /\ result[t] \in I2cErrors
    /\ saturation = 128

\* C16: a hue call carries a value v of -127..128; the only register it
\* accesses is ADV7180_HUE_REG (0x0B), written with the byte (-v) mod 256; and
\* once it has returned 0 it has made that one write and the mirrored hue is v.
C16_HueByteIsNegation ==
  LET t == ApiThread IN
    (op[t] = "adv7180_s_ctrl" /\ loc[t].id = V4L2_CID_HUE)
      => /\ loc[t].val \in (0 - 127)..128
         /\ \A i \in 1..Len(bus[t]) :
              /\ bus[t][i].kind = "w" /\ bus[t][i].reg = 11
              /\ bus[t][i].val = (0 - loc[t].val) % 256
         /\ (pc[t] = "done" /\ result[t] = 0)
              => /\ Len(bus[t]) = 1 /\ bus[t][1].ok
                 /\ hue = loc[t].val

\* Hue -127 has been set: byte 127 went to register 0x0B.
C16_Witness ==
  LET t == ApiThread IN
    /\ op[t] = "adv7180_s_ctrl" /\ loc[t].id = V4L2_CID_HUE
    /\ pc[t] = "done" /\ result[t] = 0
    /\ loc[t].val = 0 - 127 /\ hue = 0 - 127
    /\ bus[t][1].val = 127

\* C17: a saturation call that has returned 0 for a value v of 0..255 has made
\* two register accesses and no other: the write of v to
\* ADV7180_SD_SATURATION_CB (0xE3), then the write of the same v to
\* ADV7180_SD_SATURATION_CR (0xE4); the mirrored saturation is v.
C17_SaturationWritesBoth ==
  LET t == ApiThread IN
    (op[t] = "adv7180_s_ctrl" /\ loc[t].id = V4L2_CID_SATURATION
       /\ pc[t] = "done" /\ result[t] = 0)
      => /\ loc[t].val \in 0..255
         /\ Len(bus[t]) = 2
         /\ \A i \in 1..2 :
              /\ bus[t][i].kind = "w" /\ bus[t][i].ok
              /\ bus[t][i].val = loc[t].val
         /\ bus[t][1].reg = 227 /\ bus[t][2].reg = 228
         /\ saturation = loc[t].val

\* Saturation 200 has been set.
C17_Witness ==
  LET t == ApiThread IN
    /\ op[t] = "adv7180_s_ctrl" /\ loc[t].id = V4L2_CID_SATURATION
    /\ pc[t] = "done" /\ result[t] = 0
    /\ loc[t].val = 200 /\ saturation = 200
    /\ bus[t][1].val = 200 /\ bus[t][2].val = 200

\* C18: an attach in which a register access of the power-up, of the reset,
\* of the register program, of the identification or of the interrupt-enable
\* programming has failed does not return success.  The first 242 accesses
\* of the log are the power-on write, the reset write, the program and the
\* read of IDENT; the accesses made once the handler is registered are those
\* of the interrupt-enable programming.
C18_FailedAccessFailsAttach ==
  LET t == ApiThread IN
    (op[t] = "adv7180_probe" /\ pc[t] = "done"
       /\ \E i \in 1..Len(bus[t]) :
            ~bus[t][i].ok
              /\ (i <= Len(HardResetProgram) + 3 \/ irq_requested))
      => result[t] < 0

\* C19: an attach that has returned an error after the chip was powered up
\* has disabled the regulators, has put the device back in power-down
\* (sensor->on false) and has left no interrupt handler registered.
C19_FailedAttachTornDown ==
  LET t == ApiThread IN
    (op[t] = "adv7180_probe" /\ pc[t] = "done" /\ result[t] < 0
       /\ bus[t] # <<>>)
      => ~supplies /\ ~on /\ ~irq_requested

\* Kind and register of the accesses of a log.
KindReg(b) == [i \in 1..Len(b) |-> <<b[i].kind, b[i].reg>>]

\* The accesses of adv7180_update_lock_status and adv7180_enable_interrupts.
UlsShape ==
  <<<<"r", 16>>, <<"w", 14>>, <<"r", 66>>, <<"r", 74>>, <<"w", 67>>,
    <<"w", 75>>, <<"r", 73>>, <<"w", 14>>>>
EiShape == <<<<"w", 14>>, <<"w", 64>>, <<"w", 68>>, <<"w", 76>>, <<"w", 14>>>>

\* What a successful attach may log after the read of IDENT: the eight
\* accesses of the lock refresh, the read of the autodetect refresh if the
\* signal is locked, and with an irq the writes of the interrupt-enable
\* programming up to its first failure.
AttachTails ==
  {UlsShape \o ad \o ei :
     ad \in {<<>>, <<<<"r", 16>>>>},
     ei \in IF has_irq THEN {SubSeq(EiShape, 1, k) : k \in 1..Len(EiShape)}
            ELSE {<<>>}}

\* C20: the attach log starts with the write of 0x00 to 0x0F, then the write
\* of 0x80 to 0x0F, then the writes of the register program in the order of
\* the table, each made only after the one before it succeeded, then the read
\* of IDENT (0x11), which is never made before the last write of the program
\* succeeded; a successful attach has then made the accesses of the lock
\* refresh and of the autodetect refresh, and after them those of the
\* interrupt-enable programming if and only if there is an irq.
C20_AttachAccessOrder ==
  LET t == ApiThread
      b == bus[ApiThread]
      n == Len(HardResetProgram)
  IN op[t] = "adv7180_probe"
       => /\ \A i \in 1..Len(b) :
               /\ i = 1 => b[i].kind = "w" /\ b[i].reg = 15 /\ b[i].val = 0
               /\ i = 2 => b[i].kind = "w" /\ b[i].reg = 15 /\ b[i].val = 128
               /\ (i > 2 /\ i <= n + 2)
                    => /\ b[i].kind = "w"
                       /\ <<b[i].reg, b[i].val>> = HardResetProgram[i - 2]
                       /\ i > 3 => b[i - 1].ok
               /\ (b[i].kind = "r" /\ b[i].reg = 17)
                    => i = n + 3 /\ b[n + 2].ok
               /\ i > n + 3 => b[n + 3].ok
          /\ (pc[t] = "done" /\ result[t] = 0)
               => /\ Len(b) > n + 3
                  /\ b[n + 3].kind = "r" /\ b[n + 3].reg = 17
                  /\ KindReg(SubSeq(b, n + 4, Len(b))) \in AttachTails

\* A device with an irq has attached with every access successful and the
\* signal locked: 239 program writes, the read of IDENT, eight accesses of
\* the lock refresh, one of the autodetect refresh, five writes of the
\* interrupt-enable programming.
C20_Witness ==
  LET t == ApiThread IN
    /\ op[t] = "adv7180_probe" /\ pc[t] = "done" /\ result[t] = 0
    /\ has_irq /\ locked
    /\ Len(bus[t]) = 2 + 239 + 1 + 8 + 1 + 5
    /\ \A i \in 1..Len(bus[t]) : bus[t][i].ok

C22_HandlerNeverBesideSequencer ==
  [][pc[ApiThread] \in {"hr_reset", "hr_prog", "ei_config", "ei_mask1",
                        "ei_mask3", "ei_bank_norm"}
       => Len(bus'[IrqThread]) <= Len(bus[IrqThread])]_vars

(* ------------------------------------------------------------------ *)
(* The interrupt handler on an unlock interrupt                       *)
(* ------------------------------------------------------------------ *)
\* The handler has read all of adv7180_update_lock_status's registers and
\* found only SD_UNLOCK latched: INT_STATUS_1 = 0x02, INT_STATUS_3 = 0.
UnlockOnlyRun ==
  /\ op[IrqThread] = "adv7180_interrupt"
  /\ pc[IrqThread] = "uls_ret"
  /\ loc[IrqThread].ret = 0
  /\ loc[IrqThread].int_stat1 = 2
  /\ loc[IrqThread].int_stat3 = 0

C24_ChangeIffStandardDiffers ==
  /\ [](\A t \in Threads :
          (pc[t] = "ad_ret" /\ locked /\ loc[t].ret = 0 /\ bus[t] # <<>>)
            => LET code == CodeOf(bus[t][1].val)
               IN  /\ loc[t].std_change
                        = (AutodetectStd(code) # loc[t].prev_std)
                   /\ std_id = AutodetectStd(code)
                   /\ loc[t].std_change
                        => /\ video_idx = AutodetectIdx(code)
                           /\ fmt.width = video_fmts[AutodetectIdx(code)].raw.width
                           /\ fmt.height = video_fmts[AutodetectIdx(code)].raw.height)
  /\ [][\A t \in Threads :
          (/\ pc[t] = "ad_cmp" /\ pc'[t] # pc[t]
           /\ AutodetectStd(CodeOf(loc[t].stat1)) = std_id)
            => /\ pc'[t] = "ad_ret"
               /\ loc'[t].std_change = FALSE
               /\ loc'[t].ret = 0
               /\ UNCHANGED sensorvars]_vars

\* A call has returned after changing the standard: the stored standard, the
\* index and the frame height all differ from what they were.
C24_Witness ==
  \E t \in Threads :
    /\ pc[t] = "ad_ret" /\ locked /\ loc[t].ret = 0 /\ bus[t] # <<>>
    /\ loc[t].std_change
    /\ loc[t].prev_std # std_id
    /\ std_id = V4L2_STD_SECAM
    /\ fmt.height = 625

(* ------------------------------------------------------------------ *)
(* The two calls of one handler run                                   *)
(* ------------------------------------------------------------------ *)
\* The handler is inside adv7180_get_autodetect_std after an
\* adv7180_update_lock_status of the same run that computed locked.
HandlerInAutodetect ==
  /\ op[IrqThread] = "adv7180_interrupt"
  /\ pc[IrqThread] \in AdPcs
  /\ loc[IrqThread].lsc_stored

\* C25: in a handler run adv7180_get_autodetect_std is entered only from the
\* return of adv7180_update_lock_status and never followed by it, the mutex
\* is the handler's from the first access of the one to the return of the
\* other, and locked keeps the value the run computed while the detection
\* runs.  With that value false the detection makes no access, reports no
\* change and no step of it changes std_id, video_idx or the frame format;
\* with it true a successful detection ends with std_id the standard of the
\* code read.
C25_AutodetectUsesLockedOfSameRun ==
  /\ []((/\ op[IrqThread] = "adv7180_interrupt"
         /\ pc[IrqThread] \in UlsAccessPcs \cup {"uls_compute", "uls_ret"}
                                \cup AdPcs \cup {"irq_unlock"})
          => mutex = IrqThread)
  /\ []((HandlerInAutodetect /\ pc[IrqThread] = "ad_ret" /\ ~locked)
          => /\ bus[IrqThread] = <<>>
             /\ ~loc[IrqThread].std_change)
  /\ []((/\ HandlerInAutodetect /\ pc[IrqThread] = "ad_ret" /\ locked
         /\ loc[IrqThread].ret = 0)
          => /\ bus[IrqThread] # <<>>
             /\ std_id = AutodetectStd(CodeOf(bus[IrqThread][1].val)))
  /\ [][/\ (op[IrqThread] = "adv7180_interrupt"
            /\ pc'[IrqThread] = "ad_entry" /\ pc[IrqThread] # "ad_entry")
             => pc[IrqThread] = "uls_ret"
        /\ (op[IrqThread] = "adv7180_interrupt" /\ pc[IrqThread] \in AdPcs)
             => pc'[IrqThread] \notin UlsAccessPcs \cup {"uls_compute", "uls_ret"}
        /\ HandlerInAutodetect
             => /\ locked' = locked
                /\ ~locked => /\ std_id' = std_id
                              /\ video_idx' = video_idx
                              /\ fmt' = fmt]_vars

\* A handler run computed locked true and its detection, in the same run,
\* has stored a standard that differs from the one it found.
C25_Witness ==
  /\ HandlerInAutodetect /\ pc[IrqThread] = "ad_ret"
  /\ locked /\ loc[IrqThread].uls_ret = 0
  /\ loc[IrqThread].std_change
  /\ std_id # loc[IrqThread].prev_std

(* ------------------------------------------------------------------ *)
(* The status_change output of adv7180_update_lock_status             *)
(* ------------------------------------------------------------------ *)
\* C26: when adv7180_update_lock_status returns 0 its status_change output is
\* stored, and it is true exactly when bit 0 or bit 1 of the INT_STATUS_1
\* value read or bit 1 of the INT_STATUS_3 value read is set; bit 3 of
\* INT_STATUS_3 (SD_AD_CHNG) and the value of locked play no part.
C26_StatusChangeFromLatchedBits ==
  \A t \in Threads :
    (pc[t] = "uls_ret" /\ loc[t].ret = 0)
      => /\ Len(bus[t]) >= 4
         /\ bus[t][Len(bus[t]) - 5].reg = ADV7180_INT_STATUS_1
         /\ bus[t][Len(bus[t]) - 4].reg = ADV7180_INT_STATUS_3
         /\ loc[t].lsc_stored
         /\ loc[t].lock_status_change
              = (\/ Bit(bus[t][Len(bus[t]) - 5].val, 0)
                 \/ Bit(bus[t][Len(bus[t]) - 5].val, 1)
                 \/ Bit(bus[t][Len(bus[t]) - 4].val, 1))

\* A call that read only SD_AD_CHNG latched has turned locked from false to
\* true and reports no change.
C26_Witness ==
  /\ pc[ApiThread] = "uls_ret" /\ loc[ApiThread].ret = 0
  /\ op[ApiThread] = "adv7180_querystd"
  /\ loc[ApiThread].int_stat1 = 0 /\ loc[ApiThread].int_stat3 = 8
  /\ calls = 0 /\ locked
  /\ ~loc[ApiThread].lock_status_change

(* ------------------------------------------------------------------ *)
(* The access order of adv7180_update_lock_status                     *)
(* ------------------------------------------------------------------ *)
\* C27: the accesses of a call of adv7180_update_lock_status made by the
\* handler or by adv7180_querystd are, at every moment, a prefix of: read
\* 0x10, write 0x0E, read 0x42, read 0x4A, write 0x43, write 0x4B, read 0x49,
\* write 0x0E; a call that returns 0 has made all eight, each successfully,
\* the first write to 0x0E with 0x20 and the last with 0x00, and the values
\* written to 0x43 and 0x4B are the values read from 0x42 and 0x4A.
C27_LockRefreshAccessOrder ==
  \A t \in Threads :
    (/\ op[t] \in {"adv7180_interrupt", "adv7180_querystd"}
     /\ pc[t] \in UlsAccessPcs \cup {"uls_compute", "uls_ret"})
      => LET b == bus[t]
         IN  /\ Len(b) <= Len(UlsShape)
             /\ KindReg(b) = SubSeq(UlsShape, 1, Len(b))
             /\ (pc[t] = "uls_ret" /\ loc[t].ret = 0)
                  => /\ Len(b) = 8
                     /\ \A i \in 1..8 : b[i].ok
                     /\ b[2].val = 32
                     /\ b[5].val = b[3].val
                     /\ b[6].val = b[4].val
                     /\ b[8].val = 0

\* A successful call that read and cleared two latched bits in each register.
C27_Witness ==
  \E t \in Threads :
    /\ pc[t] = "uls_ret" /\ loc[t].ret = 0
    /\ Len(bus[t]) = 8
    /\ bus[t][5].val = 3 /\ bus[t][6].val = 10

(* ------------------------------------------------------------------ *)
(* The handler after a failed adv7180_update_lock_status              *)
(* ------------------------------------------------------------------ *)
\* C28: a handler run whose adv7180_update_lock_status returned an error
\* ends with a notification exactly when adv7180_get_autodetect_std reported
\* a change of standard.
C28_FailedRefreshNotifiesIffStdChange ==
  (/\ op[IrqThread] = "adv7180_interrupt" /\ pc[IrqThread] = "done"
   /\ loc[IrqThread].uls_ret # 0)
    => (notified = 1) = loc[IrqThread].std_change

\* A handler run whose lock refresh failed and whose detection reported no
\* change has notified all the same.
C28_SpuriousNotify ==
  /\ op[IrqThread] = "adv7180_interrupt" /\ pc[IrqThread] = "done"
  /\ loc[IrqThread].uls_ret # 0
  /\ ~loc[IrqThread].lsc_stored
  /\ ~loc[IrqThread].std_change
  /\ notified = 1

(* ------------------------------------------------------------------ *)
(* adv7180_g_input_status                                             *)
(* ------------------------------------------------------------------ *)
\* *status is a set of V4L2_IN_ST_ flags; the flags are distinct bits, so
\* that | is the union and 0 the empty set.
GInputStatusEnter(t) ==
  /\ t = ApiThread
  /\ pc[t] = "idle"
  /\ op' = [op EXCEPT ![t] = "adv7180_g_input_status"]
  /\ loc' = [loc EXCEPT ![t] = NoFrame]
  /\ pc' = [pc EXCEPT ![t] = "gis_lock"]
  /\ UNCHANGED <<sensorvars, mutex, envvars, calls, bank, bus, out, result, notified>>

\* mutex_lock(&sensor->mutex);
GInputStatusMutexLock(t) ==
  /\ pc[t] = "gis_lock"
  /\ mutex = NoOwner
  /\ mutex' = t
  /\ pc' = [pc EXCEPT ![t] = "gis_status"]
  /\ UNCHANGED <<sensorvars, envvars, calls, bank, op, loc, bus, out, result, notified>>

\* Fault: the lock is looked at before the power state.
InputStatus_LockFirst(powered, lock) ==
  IF ~lock THEN {"V4L2_IN_ST_NO_SIGNAL", "V4L2_IN_ST_NO_SYNC"}
  ELSE IF ~powered THEN {"V4L2_IN_ST_NO_POWER"}
  ELSE {}

\* *status = 0; if (sensor->on) { if (!sensor->locked) *status = ...; }
\* else *status = V4L2_IN_ST_NO_POWER;
InputStatus(powered, lock) ==
  IF powered
  THEN IF ~lock THEN {"V4L2_IN_ST_NO_SIGNAL", "V4L2_IN_ST_NO_SYNC"} ELSE {}
  ELSE {"V4L2_IN_ST_NO_POWER"}

GInputStatusStore(t) ==
  /\ pc[t] = "gis_status"
  /\ out' = [out EXCEPT ![t].status = InputStatus(on, locked)]
  /\ pc' = [pc EXCEPT ![t] = "gis_unlock"]
  /\ UNCHANGED <<sensorvars, mutex, envvars, calls, bank, op, loc, bus, result,
                 notified>>

\* mutex_unlock(&sensor->mutex); return 0;
GInputStatusMutexUnlock(t) ==
  /\ pc[t] = "gis_unlock"
  /\ mutex' = NoOwner
  /\ result' = [result EXCEPT ![t] = 0]
  /\ pc' = [pc EXCEPT ![t] = "done"]
  /\ UNCHANGED <<sensorvars, envvars, calls, bank, op, loc, bus, out, notified>>

(* ------------------------------------------------------------------ *)
(* adv7180_detach                                                     *)
(* ------------------------------------------------------------------ *)
\* adv7180_detach runs on the thread that unbinds the driver, beside the two
\* threads above: it neither takes sensor->mutex nor unregisters the subdev,
\* so that calls go on while it runs.  Its position is told by what it has
\* undone so far.  free_irq returns once no handler is running.
DetachFreeIrq ==
  /\ has_irq /\ irq_requested /\ on
  /\ pc[IrqThread] = "idle"
  /\ irq_requested' = FALSE
  /\ UNCHANGED <<sensorvars, mutex, has_irq, signal, on, supplies, calls, bank,
                 pc, op, loc, bus, out, result, notified>>

\* adv7180_power(sensor, false): the write of 0x24 to ADV7180_PWR_MNG, whose
\* result is not looked at and which changes no register modelled here, then
\* sensor->on = false.
DetachPowerOff ==
  /\ ~irq_requested /\ on
  /\ on' = FALSE
  /\ UNCHANGED <<sensorvars, mutex, has_irq, signal, supplies, irq_requested,
                 calls, bank, pc, op, loc, bus, out, result, notified>>

\* adv7180_regulator_disable(sensor); return 0;
DetachRegulatorDisable ==
  /\ ~on /\ supplies
  /\ supplies' = FALSE
  /\ UNCHANGED <<sensorvars, mutex, has_irq, signal, on, irq_requested, calls,
                 bank, pc, op, loc, bus, out, result, notified>>

\* The calls that take sensor->mutex, with adv7180_detach beside them, on a
\* device without an irq whose signal comes and goes and on a device with an
\* irq and a steady signal.
StatusScenarios == {<<FALSE, "switching">>, <<TRUE, "steady">>}

StatusStep(t) ==
  \/ UpdateLockStatus(t) \/ GetAutodetectStd(t) \/ Interrupt(t)
  \/ Querystd(t) \/ Routing(t)
  \/ GInputStatusEnter(t) \/ GInputStatusMutexLock(t)
  \/ GInputStatusStore(t) \/ GInputStatusMutexUnlock(t)

StatusNext ==
  \/ \E t \in Threads : StatusStep(t) \/ Finish(t)
  \/ DetachFreeIrq \/ DetachPowerOff \/ DetachRegulatorDisable

StatusSpec == InitIn(StatusScenarios) /\ [][StatusNext]_vars

\* The positions at which a thread waits in mutex_lock.
MutexLockPcs == {"irq_lock", "qs_lock", "gis_lock", "rt_lock"}

\* The same calls under fair scheduling: a thread inside a call or a handler
\* run goes on taking steps, and a thread waiting in mutex_lock gets the mutex
\* if it is free again and again (the kernel mutex hands over to its waiters).
\* Nothing obliges a caller to start a call or to take its result, an
\* interrupt to arrive or the driver to be unbound.
FairStatusSpec ==
  /\ StatusSpec
  /\ \A t \in Threads :
       /\ WF_vars(pc[t] \notin MutexLockPcs \cup {"idle", "done"} /\ StatusStep(t))
       /\ SF_vars(pc[t] \in MutexLockPcs /\ StatusStep(t))

(* ------------------------------------------------------------------ *)
(* The mutex discipline of the four calls that take sensor->mutex     *)
(* ------------------------------------------------------------------ *)
\* The positions between mutex_lock and mutex_unlock.
MutexHeldPcs ==
  UlsAccessPcs \cup {"uls_compute", "uls_ret"} \cup AdPcs
    \cup {"irq_unlock", "qs_deliver", "qs_unlock", "gis_status", "gis_unlock",
          "rt_wr", "rt_set", "rt_unlock"}

\* C29: in adv7180_interrupt, adv7180_querystd, adv7180_g_input_status and
\* adv7180_s_routing a thread owns the mutex exactly at the positions between
\* its mutex_lock and its mutex_unlock: not while it waits in mutex_lock, not
\* once the call has returned, with or without an error; the owner changes
\* only by a waiting thread taking the free mutex or by the owner releasing
\* it in its mutex_unlock; and under fair scheduling a thread that waits in
\* mutex_lock gets the mutex and every call and handler run that started
\* returns.
C29_MutexReleasedOnEveryPath ==
  /\ [](\A t \in Threads : (mutex = t) = (pc[t] \in MutexHeldPcs))
  /\ [][mutex' # mutex
          => IF mutex = NoOwner
             THEN /\ pc[mutex'] \in MutexLockPcs
                  /\ pc'[mutex'] \in MutexHeldPcs
             ELSE /\ mutex' = NoOwner
                  /\ pc[mutex] \in {"irq_unlock", "qs_unlock", "gis_unlock",
                                    "rt_unlock"}
                  /\ pc'[mutex] \notin MutexHeldPcs]_vars
  /\ \A t \in Threads :
       /\ (pc[t] \in MutexLockPcs) ~> (mutex = t)
       /\ (pc[t] # "idle") ~> (pc[t] = "done")

\* adv7180_querystd waits in mutex_lock while the handler owns the mutex.
C29_Witness ==
  /\ pc[ApiThread] = "qs_lock"
  /\ mutex = IrqThread
  /\ pc[IrqThread] = "ad_rd_stat1"

(* ------------------------------------------------------------------ *)
(* The queries answered from stored state                             *)
(* ------------------------------------------------------------------ *)
\* C30: adv7180_g_input_status makes no register access and returns 0; the
\* status it stores, holding the mutex, is NO_POWER alone if on is false,
\* whatever locked is, NO_SIGNAL and NO_SYNC if on is true and locked false,
\* and empty if both are true.  On a device with an irq adv7180_querystd
\* makes no register access either and delivers the stored std_id with
\* result 0.
C30_QueriesAnswerFromStoredState ==
  /\ [](\A t \in Threads :
          /\ op[t] = "adv7180_g_input_status"
               => /\ bus[t] = <<>>
                  /\ result[t] = 0
                  /\ pc[t] \in {"gis_lock", "gis_status", "gis_unlock", "done"}
          /\ (op[t] = "adv7180_querystd" /\ has_irq)
               => /\ bus[t] = <<>>
                  /\ result[t] = 0
                  /\ pc[t] \in {"qs_lock", "qs_deliver", "qs_unlock", "done"}
                  /\ pc[t] = "qs_unlock" => out[t].std = std_id)
  /\ [][\A t \in Threads :
          (pc[t] = "gis_status" /\ pc'[t] # pc[t])
            => /\ mutex = t
               /\ out'[t].status =
                    (IF ~on THEN {"V4L2_IN_ST_NO_POWER"}
                     ELSE IF ~locked
                          THEN {"V4L2_IN_ST_NO_SIGNAL", "V4L2_IN_ST_NO_SYNC"}
                          ELSE {})]_vars

\* The query has answered "no power" for a device that is locked.
C30_Witness ==
  /\ pc[ApiThread] = "done" /\ op[ApiThread] = "adv7180_g_input_status"
  /\ ~on /\ locked
  /\ out[ApiThread].status = {"V4L2_IN_ST_NO_POWER"}

====
